---- MODULE Spec2Model ----
(***************************************************************************)
(* A model of the engram memory store (internal/store/store.go): the       *)
(* sessions, observations and user_prompts tables, the observations_fts    *)
(* index kept by triggers, and the write, read and export/import paths.    *)
(*                                                                         *)
(* Text that the store processes (title, content, topic key, scope) is a   *)
(* sequence of one-character strings, so that redaction, trimming,         *)
(* lower-casing, whitespace collapsing and byte truncation are computed    *)
(* as the code computes them.  A nullable column is <<>> (NULL) or <<v>>.  *)
(* Timestamps are integer clock ticks (one tick is one minute).            *)
(***************************************************************************)
EXTENDS Integers, Sequences, FiniteSets, TLC

\* ------------------------------------------------------------------ bounds
MaxTime == 2
MaxOps == 3
MaxAddOps == 4
MaxRedactOps == 3
MaxSyncOps == 4
MaxLegacyRows == 3
MaxLegacyOps == 2
MaxTopicOps == 3
MaxSuggestOps == 1
MaxEdgeOps == 4
MaxTimelineOps == 3
TimelineRows == 13
MaxPassiveOps == 4
MaxRaceOps == 3
MaxOpenOps == 2
MinLearningLength == 2
MaxPluginOps == 2
MaxTUIKeys == 5
MaxEscs == 3
MaxPromptLength == 24

\* ---------------------------------------------------------- configuration
MaxObservationLength == 12
DedupeWindow == 1
MaxContextResults == 20
MaxSearchResults == 20
TopicKeyMaxLen == 120

\* ------------------------------------------------------------ text values
Nil == <<>>

Min(S) == CHOOSE x \in S : \A y \in S : x <= y

Max(S) == CHOOSE x \in S : \A y \in S : x >= y

IsSpace(c) == c \in {" ", "\n", "\t"}

UpperLetters ==
    [A |-> "a", B |-> "b", C |-> "c", D |-> "d", E |-> "e", F |-> "f",
     G |-> "g", H |-> "h", I |-> "i", J |-> "j", K |-> "k", L |-> "l",
     M |-> "m", N |-> "n", O |-> "o", P |-> "p", Q |-> "q", R |-> "r",
     S |-> "s", T |-> "t", U |-> "u", V |-> "v", W |-> "w", X |-> "x",
     Y |-> "y", Z |-> "z"]

LowerLetters ==
    {"a", "b", "c", "d", "e", "f", "g", "h", "i", "j", "k", "l", "m", "n",
     "o", "p", "q", "r", "s", "t", "u", "v", "w", "x", "y", "z"}

Digits == {"0", "1", "2", "3", "4", "5", "6", "7", "8", "9"}

Lower(c) == IF c \in DOMAIN UpperLetters THEN UpperLetters[c] ELSE c

\* a text is a sequence of bytes: an ASCII character stands for its byte
\* and a byte above 7F is written as its two hex digits
LeadBytes2 == {"C3"}

LeadBytes3 == {"E2", "EF"}

ContinuationBytes == {"80", "A6", "A9", "BD", "BF"}

HighBytes == LeadBytes2 \cup LeadBytes3 \cup ContinuationBytes

\* U+FFFD, which strings.Map writes for a byte that is not part of a
\* well-formed UTF-8 sequence
ReplacementChar == <<"EF", "BF", "BD">>

\* the concatenation of pieces lo..hi of a sequence of sequences
RECURSIVE Flatten(_, _, _)
Flatten(pieces, lo, hi) ==
    IF lo > hi THEN <<>>
    ELSE IF lo = hi THEN pieces[lo]
    ELSE Flatten(pieces, lo, (lo + hi) \div 2)
             \o Flatten(pieces, (lo + hi) \div 2 + 1, hi)

\* byte i starts a well-formed sequence of n bytes
StartsRune(s, i, n) ==
    /\ i >= 1
    /\ i + n - 1 <= Len(s)
    /\ s[i] \in (IF n = 2 THEN LeadBytes2 ELSE LeadBytes3)
    /\ \A j \in (i + 1)..(i + n - 1) : s[j] \in ContinuationBytes

\* byte i belongs to a well-formed sequence
InRune(s, i) ==
    \/ StartsRune(s, i, 2) \/ StartsRune(s, i, 3)
    \/ s[i] \in ContinuationBytes
          /\ (StartsRune(s, i - 1, 2) \/ StartsRune(s, i - 1, 3) \/ StartsRune(s, i - 2, 3))

\* strings.Map(unicode.ToLower, s), rune by rune; the runes above 7F in use
\* have no lower-case form of their own
MapLower(s) ==
    Flatten([i \in 1..Len(s) |->
                IF s[i] \notin HighBytes THEN <<Lower(s[i])>>
                ELSE IF InRune(s, i) THEN <<s[i]>>
                ELSE ReplacementChar], 1, Len(s))

\* strings.ToLower: byte by byte on ASCII text, strings.Map otherwise
ToLower(s) ==
    IF \A i \in 1..Len(s) : s[i] \notin HighBytes
    THEN [i \in 1..Len(s) |-> Lower(s[i])]
    ELSE MapLower(s)

TrimSpace(s) ==
    LET keep == {i \in 1..Len(s) : ~IsSpace(s[i])}
    IN IF keep = {} THEN <<>> ELSE SubSeq(s, Min(keep), Max(keep))

\* strings.Fields: the maximal runs of non-space bytes, left to right
FieldStarts(s) ==
    {i \in 1..Len(s) : ~IsSpace(s[i]) /\ (i = 1 \/ IsSpace(s[i - 1]))}

FieldEnd(s, i) == Min({j \in i..Len(s) : j = Len(s) \/ IsSpace(s[j + 1])})

Fields(s) ==
    LET starts == FieldStarts(s)
        nth == [k \in 1..Cardinality(starts) |->
                   CHOOSE i \in starts : Cardinality({j \in starts : j < i}) = k - 1]
    IN [k \in 1..Cardinality(starts) |-> SubSeq(s, nth[k], FieldEnd(s, nth[k]))]

RECURSIVE Join(_, _)
Join(words, sep) ==
    IF words = <<>> THEN <<>>
    ELSE IF Len(words) = 1 THEN words[1]
    ELSE words[1] \o sep \o Join(Tail(words), sep)

Contains(s, pat) ==
    \E i \in 1..(Len(s) - Len(pat) + 1) : SubSeq(s, i, i + Len(pat) - 1) = pat

HasSuffix(s, pat) ==
    Len(s) >= Len(pat) /\ SubSeq(s, Len(s) - Len(pat) + 1, Len(s)) = pat

\* ------------------------------------------------------------- redaction
OpenTag == <<"<", "p", "r", "i", "v", "a", "t", "e", ">">>

CloseTag == <<"<", "/", "p", "r", "i", "v", "a", "t", "e", ">">>

Redacted == <<"[", "R", "E", "D", "A", "C", "T", "E", "D", "]">>

TruncatedSuffix ==
    <<".", ".", ".", " ", "[", "t", "r", "u", "n", "c", "a", "t", "e", "d", "]">>

\* the pattern without (?i): the letters match in lower case only
MatchExact(s, i, pat) ==
    /\ i + Len(pat) - 1 <= Len(s)
    /\ SubSeq(s, i, i + Len(pat) - 1) = pat

\* (?i): the pattern's letters match either case
MatchAt(s, i, pat) ==
    /\ i + Len(pat) - 1 <= Len(s)
    /\ ToLower(SubSeq(s, i, i + Len(pat) - 1)) = pat

\* leftmost match of <private>.*?</private>: from an opening tag to the
\* first closing tag after it; (?s) lets the region span line breaks
FirstClose(s, i) ==
    LET ends == {j \in (i + Len(OpenTag))..Len(s) :
                    s[j] = "<" /\ MatchAt(s, j, CloseTag)}
    IN IF ends = {} THEN 0 ELSE Min(ends)

\* where, from i on, a match of the pattern starts
RegionStarts(s, i) ==
    {j \in i..Len(s) : s[j] = "<" /\ MatchAt(s, j, OpenTag) /\ FirstClose(s, j) # 0}

\* ReplaceAllString: the matches left to right, none overlapping the one
\* before it
RECURSIVE ReplaceAllFrom(_, _)
ReplaceAllFrom(s, i) ==
    LET starts == RegionStarts(s, i)
        j == Min(starts)
    IN IF starts = {} THEN SubSeq(s, i, Len(s))
       ELSE SubSeq(s, i, j - 1) \o Redacted
                \o ReplaceAllFrom(s, FirstClose(s, j) + Len(CloseTag))

stripPrivateTags(s) == TrimSpace(ReplaceAllFrom(s, 1))

\* a store without a length cap
uncappedContent(content) == content

truncateContent(content) ==
    IF Len(content) > MaxObservationLength
    THEN SubSeq(content, 1, MaxObservationLength) \o TruncatedSuffix
    ELSE content

\* --------------------------------------------------------- normalization
Personal == <<"p", "e", "r", "s", "o", "n", "a", "l">>

ProjectScope == <<"p", "r", "o", "j", "e", "c", "t">>

normalizeScope(scope) ==
    IF TrimSpace(ToLower(scope)) = Personal THEN Personal ELSE ProjectScope

normalizeTopicKey(topic) ==
    LET v == TrimSpace(ToLower(topic))
        j == Join(Fields(v), <<"-">>)
    IN IF v = <<>> THEN <<>>
       ELSE IF Len(j) > TopicKeyMaxLen THEN SubSeq(j, 1, TopicKeyMaxLen) ELSE j

\* the hash taken of the content as it is, whitespace and case included
hashVerbatim(content) == content

\* the hash taken of the lowercased content, its whitespace kept
hashCaseFolded(content) == ToLower(content)

\* SHA-256 is modelled by its preimage: equal hashes iff equal normalized text
hashNormalized(content) == ToLower(Join(Fields(content), <<" ">>))

\* nullableString on an opaque string (session id, type, tool name, project)
nullableString(s) == IF s = "" THEN Nil ELSE <<s>>

\* nullableString on a character sequence (topic key)
nullableText(s) == IF s = <<>> THEN Nil ELSE <<s>>

derefString(v, zero) == IF v = Nil THEN zero ELSE v[1]

maxInt(a, b) == IF a > b THEN a ELSE b

\* ------------------------------------------------------ topic suggestion
TopicSegmentMaxLen == 100

SuggestMaxWords == 8

\* the length of the long type in use
SuggestLongLen == 30

HasPrefix(s, pre) == Len(pre) <= Len(s) /\ SubSeq(s, 1, Len(pre)) = pre

hasAny(text, words) == \E w \in words : Contains(text, w)

\* regexp [^a-z0-9]+ replaced by a blank; strings.Fields then takes a run of
\* blanks as one
normalizeTopicSegment(s) ==
    LET v == ToLower(TrimSpace(s))
        r == [i \in 1..Len(v) |->
                 IF v[i] \in LowerLetters \/ v[i] \in Digits THEN v[i] ELSE " "]
        j == Join(Fields(r), <<"-">>)
    IN IF v = <<>> THEN <<>>
       ELSE IF Len(j) > TopicSegmentMaxLen THEN SubSeq(j, 1, TopicSegmentMaxLen)
       ELSE j

FamilyTopic == <<"t", "o", "p", "i", "c">>

TypeManual == <<"m", "a", "n", "u", "a", "l">>

SegmentGeneral == <<"g", "e", "n", "e", "r", "a", "l">>

inferTopicFamily(typ, title, content) ==
    LET t == TrimSpace(ToLower(typ))
        text == ToLower(title \o <<" ">> \o content)
    IN IF t \in {
            <<"a", "r", "c", "h", "i", "t", "e", "c", "t", "u", "r", "e">>,
            <<"d", "e", "s", "i", "g", "n">>, <<"a", "d", "r">>,
            <<"r", "e", "f", "a", "c", "t", "o", "r">>}
       THEN <<"a", "r", "c", "h", "i", "t", "e", "c", "t", "u", "r", "e">>
       ELSE IF t \in {<<"b", "u", "g">>, <<"b", "u", "g", "f", "i", "x">>,
            <<"f", "i", "x">>, <<"i", "n", "c", "i", "d", "e", "n", "t">>,
            <<"h", "o", "t", "f", "i", "x">>}
       THEN <<"b", "u", "g">>
       ELSE IF t \in {<<"d", "e", "c", "i", "s", "i", "o", "n">>}
       THEN <<"d", "e", "c", "i", "s", "i", "o", "n">>
       ELSE IF t \in {<<"p", "a", "t", "t", "e", "r", "n">>,
            <<"c", "o", "n", "v", "e", "n", "t", "i", "o", "n">>,
            <<"g", "u", "i", "d", "e", "l", "i", "n", "e">>}
       THEN <<"p", "a", "t", "t", "e", "r", "n">>
       ELSE IF t \in {<<"c", "o", "n", "f", "i", "g">>,
            <<"s", "e", "t", "u", "p">>, <<"i", "n", "f", "r", "a">>,
            <<"i", "n", "f", "r", "a", "s", "t", "r", "u", "c", "t", "u", "r", "e">>,
            <<"c", "i">>}
       THEN <<"c", "o", "n", "f", "i", "g">>
       ELSE IF t \in {<<"d", "i", "s", "c", "o", "v", "e", "r", "y">>,
            <<"i", "n", "v", "e", "s", "t", "i", "g", "a", "t", "i", "o", "n">>,
            <<"r", "o", "o", "t", "_", "c", "a", "u", "s", "e">>,
            <<"r", "o", "o", "t", "-", "c", "a", "u", "s", "e">>}
       THEN <<"d", "i", "s", "c", "o", "v", "e", "r", "y">>
       ELSE IF t \in {<<"l", "e", "a", "r", "n", "i", "n", "g">>,
            <<"l", "e", "a", "r", "n">>}
       THEN <<"l", "e", "a", "r", "n", "i", "n", "g">>
       ELSE IF t \in {
            <<"s", "e", "s", "s", "i", "o", "n", "_", "s", "u", "m", "m", "a", "r", "y">>}
       THEN <<"s", "e", "s", "s", "i", "o", "n">>
       ELSE IF hasAny(text, {<<"b", "u", "g">>, <<"f", "i", "x">>,
            <<"p", "a", "n", "i", "c">>, <<"e", "r", "r", "o", "r">>,
            <<"c", "r", "a", "s", "h">>,
            <<"r", "e", "g", "r", "e", "s", "s", "i", "o", "n">>,
            <<"i", "n", "c", "i", "d", "e", "n", "t">>,
            <<"h", "o", "t", "f", "i", "x">>})
       THEN <<"b", "u", "g">>
       ELSE IF hasAny(text, {
            <<"a", "r", "c", "h", "i", "t", "e", "c", "t", "u", "r", "e">>,
            <<"d", "e", "s", "i", "g", "n">>, <<"a", "d", "r">>,
            <<"b", "o", "u", "n", "d", "a", "r", "y">>,
            <<"h", "e", "x", "a", "g", "o", "n", "a", "l">>,
            <<"r", "e", "f", "a", "c", "t", "o", "r">>})
       THEN <<"a", "r", "c", "h", "i", "t", "e", "c", "t", "u", "r", "e">>
       ELSE IF hasAny(text, {<<"d", "e", "c", "i", "s", "i", "o", "n">>,
            <<"t", "r", "a", "d", "e", "o", "f", "f">>,
            <<"c", "h", "o", "s", "e">>, <<"c", "h", "o", "o", "s", "e">>,
            <<"d", "e", "c", "i", "d", "e">>})
       THEN <<"d", "e", "c", "i", "s", "i", "o", "n">>
       ELSE IF hasAny(text, {<<"p", "a", "t", "t", "e", "r", "n">>,
            <<"c", "o", "n", "v", "e", "n", "t", "i", "o", "n">>,
            <<"n", "a", "m", "i", "n", "g">>,
            <<"g", "u", "i", "d", "e", "l", "i", "n", "e">>})
       THEN <<"p", "a", "t", "t", "e", "r", "n">>
       ELSE IF hasAny(text, {<<"c", "o", "n", "f", "i", "g">>,
            <<"s", "e", "t", "u", "p">>,
            <<"e", "n", "v", "i", "r", "o", "n", "m", "e", "n", "t">>,
            <<"e", "n", "v">>, <<"d", "o", "c", "k", "e", "r">>,
            <<"p", "i", "p", "e", "l", "i", "n", "e">>})
       THEN <<"c", "o", "n", "f", "i", "g">>
       ELSE IF hasAny(text, {<<"d", "i", "s", "c", "o", "v", "e", "r", "y">>,
            <<"i", "n", "v", "e", "s", "t", "i", "g", "a", "t", "e">>,
            <<"i", "n", "v", "e", "s", "t", "i", "g", "a", "t", "i", "o", "n">>,
            <<"f", "o", "u", "n", "d">>,
            <<"r", "o", "o", "t", " ", "c", "a", "u", "s", "e">>})
       THEN <<"d", "i", "s", "c", "o", "v", "e", "r", "y">>
       ELSE IF hasAny(text, {<<"l", "e", "a", "r", "n", "e", "d">>,
            <<"l", "e", "a", "r", "n", "i", "n", "g">>})
       THEN <<"l", "e", "a", "r", "n", "i", "n", "g">>
       ELSE IF t # <<>> /\ t # TypeManual THEN normalizeTopicSegment(t)
       ELSE FamilyTopic

TakeWords(words, n) == IF Len(words) > n THEN SubSeq(words, 1, n) ELSE words

SuggestTopicKey(typ, title, content) ==
    LET family == inferTopicFamily(typ, title, content)
        fromTitle == normalizeTopicSegment(stripPrivateTags(title))
        words == TakeWords(Fields(ToLower(stripPrivateTags(content))), SuggestMaxWords)
        fromContent == IF fromTitle = <<>>
                       THEN normalizeTopicSegment(Join(words, <<" ">>))
                       ELSE fromTitle
        segment == IF fromContent = <<>> THEN SegmentGeneral ELSE fromContent
        prefix == family \o <<"-">>
        stripped == IF HasPrefix(segment, prefix)
                    THEN SubSeq(segment, Len(prefix) + 1, Len(segment))
                    ELSE segment
    IN family \o <<"/">> \o
          (IF stripped = <<>> \/ stripped = family THEN SegmentGeneral ELSE stripped)

\* ------------------------------------------------------------------ state
VARIABLES
    sessions,          \* sessions table: id -> row
    observations,      \* observations table: id -> row
    obsSeq,            \* sqlite_sequence entry of observations (AUTOINCREMENT)
    observations_fts,  \* FTS index: rowid -> indexed columns
    user_prompts,      \* user_prompts table: id -> row
    promptSeq,         \* sqlite_sequence entry of user_prompts
    prompts_fts,       \* FTS index of prompts: rowid -> indexed columns
    now,               \* the clock read by datetime('now')
    last,              \* the last call and what it returned
    hist,              \* AddObservation calls so far, while no other write ran
    assigned,          \* every observation id ever assigned
    steps,             \* number of calls made
    sync_chunks,       \* sync_chunks table: the chunk ids recorded
    manifest,          \* .engram/manifest.json: the chunk entries, oldest first
    chunkFiles         \* .engram/chunks: chunk id -> content

dbVars == <<sessions, observations, obsSeq, observations_fts,
            user_prompts, promptSeq, prompts_fts>>

syncVars == <<sync_chunks, manifest, chunkFiles>>

vars == <<sessions, observations, obsSeq, observations_fts,
          user_prompts, promptSeq, prompts_fts, now, last, hist, assigned, steps,
          sync_chunks, manifest, chunkFiles>>

\* the database as one value, for the operators that read or rebuild it
DB == [sessions |-> sessions, observations |-> observations, obsSeq |-> obsSeq,
       observations_fts |-> observations_fts, user_prompts |-> user_prompts,
       promptSeq |-> promptSeq, prompts_fts |-> prompts_fts]

EmptyDB == [sessions |-> <<>>, observations |-> <<>>, obsSeq |-> 0,
            observations_fts |-> <<>>, user_prompts |-> <<>>,
            promptSeq |-> 0, prompts_fts |-> <<>>]

SetDB(d) ==
    /\ sessions' = d.sessions
    /\ observations' = d.observations
    /\ obsSeq' = d.obsSeq
    /\ observations_fts' = d.observations_fts
    /\ user_prompts' = d.user_prompts
    /\ promptSeq' = d.promptSeq
    /\ prompts_fts' = d.prompts_fts

Put(f, k, v) == [x \in (DOMAIN f) \cup {k} |-> IF x = k THEN v ELSE f[x]]

Drop(f, k) == [x \in (DOMAIN f) \ {k} |-> f[x]]

\* the call history once it is no longer kept
Dropped == [pure |-> FALSE, calls |-> <<>>]

\* ---------------------------------------------------------------- schema
\* INTEGER PRIMARY KEY without AUTOINCREMENT: one more than the largest rowid
\* now in the table
NextRowid(seq, table) == Max((DOMAIN table) \cup {0}) + 1

\* INTEGER PRIMARY KEY AUTOINCREMENT: one more than the largest rowid ever used
NextId(seq, table) == maxInt(seq, Max((DOMAIN table) \cup {0})) + 1

\* the columns the obs_fts_* triggers copy into observations_fts
FtsDoc(o) == [title |-> o.title, content |-> o.content, tool_name |-> o.tool_name,
              type |-> o.type, project |-> o.project]

\* obs_fts_insert
FtsInsert(fts, o) == Put(fts, o.id, FtsDoc(o))

\* obs_fts_delete
FtsDelete(fts, o) == Drop(fts, o.id)

\* an update trigger that leaves the index as it is
FtsKeepOld(fts, old, new) == fts

\* obs_fts_update: 'delete' of the old row, then insert of the new row
FtsUpdate(fts, old, new) == FtsInsert(FtsDelete(fts, old), new)

PromptFtsDoc(p) == [content |-> p.content, project |-> p.project]

Init ==
    /\ sessions = <<>>
    /\ observations = <<>>
    /\ obsSeq = 0
    /\ observations_fts = <<>>
    /\ user_prompts = <<>>
    /\ promptSeq = 0
    /\ prompts_fts = <<>>
    /\ now = 0
    /\ last = [op |-> "New", err |-> FALSE]
    /\ hist = [pure |-> TRUE, calls |-> <<>>]
    /\ assigned = {}
    /\ steps = 0
    /\ sync_chunks = {}
    /\ manifest = <<>>
    /\ chunkFiles = <<>>

Tick ==
    /\ now < MaxTime
    /\ now' = now + 1
    /\ UNCHANGED <<dbVars, syncVars, last, hist, assigned, steps>>

\* -------------------------------------------------------------- sessions
\* a CreateSession written as INSERT OR REPLACE
CreateOrReplaceSession(id, project, directory) ==
    /\ steps' = steps + 1
    /\ sessions' = Put(sessions, id,
                       [project |-> project, directory |-> directory,
                        started_at |-> now, ended_at |-> Nil, summary |-> Nil])
    /\ last' = [op |-> "CreateSession", err |-> FALSE, id |-> id,
                project |-> project, directory |-> directory]
    /\ UNCHANGED <<observations, obsSeq, observations_fts, user_prompts,
                   promptSeq, prompts_fts, now, hist, assigned>>
    /\ UNCHANGED syncVars

CreateSession(id, project, directory) ==
    /\ steps' = steps + 1
    /\ sessions' = IF id \in DOMAIN sessions THEN sessions
                   ELSE Put(sessions, id,
                            [project |-> project, directory |-> directory,
                             started_at |-> now, ended_at |-> Nil, summary |-> Nil])
    /\ last' = [op |-> "CreateSession", err |-> FALSE, id |-> id,
                project |-> project, directory |-> directory]
    /\ UNCHANGED <<observations, obsSeq, observations_fts, user_prompts,
                   promptSeq, prompts_fts, now, hist, assigned>>
    /\ UNCHANGED syncVars

EndSession(id, summary) ==
    /\ steps' = steps + 1
    /\ sessions' = IF id \in DOMAIN sessions
                   THEN [sessions EXCEPT ![id].ended_at = <<now>>,
                                         ![id].summary = nullableString(summary)]
                   ELSE sessions
    /\ last' = [op |-> "EndSession", err |-> FALSE, id |-> id]
    /\ UNCHANGED <<observations, obsSeq, observations_fts, user_prompts,
                   promptSeq, prompts_fts, now, hist, assigned>>
    /\ UNCHANGED syncVars

\* ---------------------------------------------------------- observations
Live(tbl) == {id \in DOMAIN tbl : tbl[id].deleted_at = Nil}

\* the rows a SELECT ... ORDER BY key DESC LIMIT 1 may return
Newest(ids, key) == {e \in ids : \A o \in ids : key[o] <= key[e]}

TopicOrder(o) == o.updated_at * (MaxTime + 1) + o.created_at

CreatedOrder(o) == o.created_at

\* the lookup written as project = ?, which no NULL project satisfies
TopicMatchesProjectEquals(tbl, topicKey, project, scope) ==
    {id \in Live(tbl) :
        /\ tbl[id].topic_key = <<topicKey>>
        /\ tbl[id].project = <<project>>
        /\ tbl[id].scope = scope}

TopicMatches(tbl, topicKey, project, scope) ==
    {id \in Live(tbl) :
        /\ tbl[id].topic_key = <<topicKey>>
        /\ derefString(tbl[id].project, "") = project
        /\ tbl[id].scope = scope}

\* a dedupe lookup whose window slides with the last write of the row
DedupeMatchesSliding(tbl, normHash, project, scope, type, title, t) ==
    {id \in Live(tbl) :
        /\ tbl[id].normalized_hash = <<normHash>>
        /\ derefString(tbl[id].project, "") = project
        /\ tbl[id].scope = scope
        /\ tbl[id].type = type
        /\ tbl[id].title = title
        /\ tbl[id].updated_at >= t - DedupeWindow}

\* the dedupe lookup without its deleted_at IS NULL condition
DedupeMatchesWithDeleted(tbl, normHash, project, scope, type, title, t) ==
    {id \in DOMAIN tbl :
        /\ tbl[id].normalized_hash = <<normHash>>
        /\ derefString(tbl[id].project, "") = project
        /\ tbl[id].scope = scope
        /\ tbl[id].type = type
        /\ tbl[id].title = title
        /\ tbl[id].created_at >= t - DedupeWindow}

DedupeMatches(tbl, normHash, project, scope, type, title, t) ==
    {id \in Live(tbl) :
        /\ tbl[id].normalized_hash = <<normHash>>
        /\ derefString(tbl[id].project, "") = project
        /\ tbl[id].scope = scope
        /\ tbl[id].type = type
        /\ tbl[id].title = title
        /\ tbl[id].created_at >= t - DedupeWindow}

Record(p, id, path) ==
    IF ~hist.pure THEN Dropped
    ELSE [hist EXCEPT !.calls = Append(@, [p |-> p, id |-> id, at |-> now,
                                           path |-> path])]

AddObservationIn(p, sess, via) ==
    LET title == stripPrivateTags(p.title)
        content == truncateContent(stripPrivateTags(p.content))
        scope == normalizeScope(p.scope)
        normHash == hashNormalized(content)
        topicKey == normalizeTopicKey(p.topic_key)
        byTopic == IF topicKey = <<>> THEN {}
                   ELSE TopicMatches(observations, topicKey, p.project, scope)
        byHash == DedupeMatches(observations, normHash, p.project, scope,
                                p.type, title, now)
        newId == NextId(obsSeq, observations)
        row == [id |-> newId, session_id |-> p.session_id, type |-> p.type,
                title |-> title, content |-> content,
                tool_name |-> nullableString(p.tool_name),
                project |-> nullableString(p.project), scope |-> scope,
                topic_key |-> nullableText(topicKey), normalized_hash |-> <<normHash>>,
                revision_count |-> 1, duplicate_count |-> 1,
                last_seen_at |-> <<now>>, created_at |-> now, updated_at |-> now,
                deleted_at |-> Nil]
    IN
    /\ steps' = steps + 1
    /\ IF byTopic # {}
       THEN \E e \in Newest(byTopic, [o \in byTopic |-> TopicOrder(observations[o])]) :
              LET old == observations[e]
                  new == [old EXCEPT !.type = p.type, !.title = title,
                                     !.content = content,
                                     !.tool_name = nullableString(p.tool_name),
                                     !.topic_key = nullableText(topicKey),
                                     !.normalized_hash = <<normHash>>,
                                     !.revision_count = @ + 1,
                                     !.last_seen_at = <<now>>,
                                     !.updated_at = now]
              IN /\ observations' = [observations EXCEPT ![e] = new]
                 /\ observations_fts' = FtsUpdate(observations_fts, old, new)
                 /\ last' = [op |-> "AddObservation", err |-> FALSE, id |-> e,
                             path |-> "upsert", p |-> p, via |-> via]
                 /\ hist' = Record(p, e, "upsert")
                 /\ UNCHANGED <<obsSeq, assigned>>
       ELSE IF byHash # {}
       THEN \E e \in Newest(byHash, [o \in byHash |-> CreatedOrder(observations[o])]) :
              LET old == observations[e]
                  new == [old EXCEPT !.duplicate_count = @ + 1,
                                     !.last_seen_at = <<now>>,
                                     !.updated_at = now]
              IN /\ observations' = [observations EXCEPT ![e] = new]
                 /\ observations_fts' = FtsUpdate(observations_fts, old, new)
                 /\ last' = [op |-> "AddObservation", err |-> FALSE, id |-> e,
                             path |-> "dedupe", p |-> p, via |-> via]
                 /\ hist' = Record(p, e, "dedupe")
                 /\ UNCHANGED <<obsSeq, assigned>>
       ELSE IF p.session_id \notin DOMAIN sess
       THEN \* FOREIGN KEY (session_id) REFERENCES sessions(id) fails
            /\ last' = [op |-> "AddObservation", err |-> TRUE, id |-> 0,
                        path |-> "error", p |-> p, via |-> via]
            /\ UNCHANGED <<observations, obsSeq, observations_fts, hist, assigned>>
       ELSE /\ observations' = Put(observations, newId, row)
            /\ obsSeq' = newId
            /\ observations_fts' = FtsInsert(observations_fts, row)
            /\ last' = [op |-> "AddObservation", err |-> FALSE, id |-> newId,
                        path |-> "insert", p |-> p, via |-> via]
            /\ hist' = Record(p, newId, "insert")
            /\ assigned' = assigned \cup {newId}
    /\ sessions' = sess
    /\ UNCHANGED <<user_prompts, promptSeq, prompts_fts, now>>
    /\ UNCHANGED syncVars

\* Store.AddObservation, called on the store as it is
AddObservation(p) == AddObservationIn(p, sessions, "store")

\* a save handler that does not ensure the session
handleSaveAsGiven(args) ==
    AddObservationIn([args EXCEPT !.tool_name = ""], sessions, "handleSave")

\* the save handler of the MCP server: the session defaults to manual-save
\* and is created, its error ignored, before AddObservation runs on the
\* resulting store
handleSave(args) ==
    LET typ == IF args.type = "" THEN "manual" ELSE args.type
        sessionID == IF args.session_id = "" THEN "manual-save" ELSE args.session_id
        sess == IF sessionID \in DOMAIN sessions THEN sessions
                ELSE Put(sessions, sessionID,
                         [project |-> args.project, directory |-> "",
                          started_at |-> now, ended_at |-> Nil, summary |-> Nil])
    IN AddObservationIn([args EXCEPT !.type = typ, !.session_id = sessionID,
                                     !.tool_name = ""],
                        sess, "handleSave")

\* the row GetObservation returns, or Nil for sql.ErrNoRows
GetObservation(tbl, id) ==
    IF id \in DOMAIN tbl /\ tbl[id].deleted_at = Nil THEN <<tbl[id]>> ELSE Nil

\* an update that counts as a sighting and keeps the stored hash
UpdateObservationAsSeen(id, p) ==
    LET got == GetObservation(observations, id)
        obs == got[1]
        typ == IF p.type # Nil THEN p.type[1] ELSE obs.type
        title == IF p.title # Nil THEN stripPrivateTags(p.title[1]) ELSE obs.title
        content == IF p.content # Nil
                   THEN truncateContent(stripPrivateTags(p.content[1]))
                   ELSE obs.content
        project == IF p.project # Nil THEN p.project[1]
                   ELSE derefString(obs.project, "")
        scope == IF p.scope # Nil THEN normalizeScope(p.scope[1]) ELSE obs.scope
        topicKey == IF p.topic_key # Nil THEN normalizeTopicKey(p.topic_key[1])
                    ELSE derefString(obs.topic_key, <<>>)
        new == [obs EXCEPT !.type = typ, !.title = title, !.content = content,
                           !.project = nullableString(project), !.scope = scope,
                           !.topic_key = nullableText(topicKey),
                           !.last_seen_at = <<now>>,
                           !.revision_count = @ + 1,
                           !.updated_at = now]
    IN
    /\ steps' = steps + 1
    /\ hist' = Dropped
    /\ IF got = Nil
       THEN /\ last' = [op |-> "UpdateObservation", err |-> TRUE, id |-> id, p |-> p]
            /\ UNCHANGED <<observations, observations_fts>>
       ELSE /\ observations' = [observations EXCEPT ![id] = new]
            /\ observations_fts' = FtsUpdate(observations_fts, obs, new)
            /\ last' = [op |-> "UpdateObservation", err |-> FALSE, id |-> id, p |-> p]
    /\ UNCHANGED <<sessions, obsSeq, user_prompts, promptSeq, prompts_fts, now, assigned>>
    /\ UNCHANGED syncVars

UpdateObservation(id, p) ==
    LET got == GetObservation(observations, id)
        obs == got[1]
        typ == IF p.type # Nil THEN p.type[1] ELSE obs.type
        title == IF p.title # Nil THEN stripPrivateTags(p.title[1]) ELSE obs.title
        content == IF p.content # Nil
                   THEN truncateContent(stripPrivateTags(p.content[1]))
                   ELSE obs.content
        project == IF p.project # Nil THEN p.project[1]
                   ELSE derefString(obs.project, "")
        scope == IF p.scope # Nil THEN normalizeScope(p.scope[1]) ELSE obs.scope
        topicKey == IF p.topic_key # Nil THEN normalizeTopicKey(p.topic_key[1])
                    ELSE derefString(obs.topic_key, <<>>)
        new == [obs EXCEPT !.type = typ, !.title = title, !.content = content,
                           !.project = nullableString(project), !.scope = scope,
                           !.topic_key = nullableText(topicKey),
                           !.normalized_hash = <<hashNormalized(content)>>,
                           !.revision_count = @ + 1,
                           !.updated_at = now]
    IN
    /\ steps' = steps + 1
    /\ hist' = Dropped
    /\ IF got = Nil
       THEN /\ last' = [op |-> "UpdateObservation", err |-> TRUE, id |-> id, p |-> p]
            /\ UNCHANGED <<observations, observations_fts>>
       ELSE /\ observations' = [observations EXCEPT ![id] = new]
            /\ observations_fts' = FtsUpdate(observations_fts, obs, new)
            /\ last' = [op |-> "UpdateObservation", err |-> FALSE, id |-> id, p |-> p]
    /\ UNCHANGED <<sessions, obsSeq, user_prompts, promptSeq, prompts_fts, now, assigned>>
    /\ UNCHANGED syncVars

DeleteObservation(id, hardDelete) ==
    /\ steps' = steps + 1
    /\ hist' = Dropped
    /\ last' = [op |-> "DeleteObservation", err |-> FALSE, id |-> id,
                hard |-> hardDelete]
    /\ IF id \notin DOMAIN observations
       THEN UNCHANGED <<observations, observations_fts>>
       ELSE IF hardDelete
       THEN /\ observations' = Drop(observations, id)
            /\ observations_fts' = FtsDelete(observations_fts, observations[id])
       ELSE IF observations[id].deleted_at = Nil
       THEN LET new == [observations[id] EXCEPT !.deleted_at = <<now>>,
                                                !.updated_at = now]
            IN /\ observations' = [observations EXCEPT ![id] = new]
               /\ observations_fts' = FtsUpdate(observations_fts, observations[id], new)
       ELSE UNCHANGED <<observations, observations_fts>>
    /\ UNCHANGED <<sessions, obsSeq, user_prompts, promptSeq, prompts_fts, now, assigned>>
    /\ UNCHANGED syncVars

\* ---------------------------------------------------------- user prompts
\* AddPrompt on a connection that does not enforce foreign keys
AddPromptUnchecked(p) ==
    LET content == truncateContent(stripPrivateTags(p.content))
        newId == NextId(promptSeq, user_prompts)
        row == [id |-> newId, session_id |-> p.session_id, content |-> content,
                project |-> nullableString(p.project), created_at |-> now]
    IN
    /\ steps' = steps + 1
    /\ user_prompts' = Put(user_prompts, newId, row)
    /\ promptSeq' = newId
    /\ prompts_fts' = Put(prompts_fts, newId, PromptFtsDoc(row))
    /\ last' = [op |-> "AddPrompt", err |-> FALSE, id |-> newId, p |-> p]
    /\ UNCHANGED <<sessions, observations, obsSeq, observations_fts, now, hist, assigned>>
    /\ UNCHANGED syncVars

AddPrompt(p) ==
    LET content == truncateContent(stripPrivateTags(p.content))
        newId == NextId(promptSeq, user_prompts)
        row == [id |-> newId, session_id |-> p.session_id, content |-> content,
                project |-> nullableString(p.project), created_at |-> now]
    IN
    /\ steps' = steps + 1
    /\ IF p.session_id \notin DOMAIN sessions
       THEN /\ last' = [op |-> "AddPrompt", err |-> TRUE, id |-> 0, p |-> p]
            /\ UNCHANGED <<user_prompts, promptSeq, prompts_fts>>
       ELSE /\ user_prompts' = Put(user_prompts, newId, row)
            /\ promptSeq' = newId
            /\ prompts_fts' = Put(prompts_fts, newId, PromptFtsDoc(row))
            /\ last' = [op |-> "AddPrompt", err |-> FALSE, id |-> newId, p |-> p]
    /\ UNCHANGED <<sessions, observations, obsSeq, observations_fts, now, hist, assigned>>
    /\ UNCHANGED syncVars

\* ---------------------------------------------------------- export/import
RECURSIVE SortedIds(_)
SortedIds(S) == IF S = {} THEN <<>> ELSE <<Min(S)>> \o SortedIds(S \ {Min(S)})

\* ORDER BY started_at; the order among equal started_at is immaterial to
\* Import because exported session ids are distinct
RECURSIVE SessionsByStart(_, _)
SessionsByStart(tbl, S) ==
    IF S = {} THEN <<>>
    ELSE LET f == CHOOSE x \in S : \A y \in S : tbl[x].started_at <= tbl[y].started_at
         IN <<f>> \o SessionsByStart(tbl, S \ {f})

ExportSession(tbl, id) ==
    [id |-> id, project |-> tbl[id].project, directory |-> tbl[id].directory,
     started_at |-> tbl[id].started_at, ended_at |-> tbl[id].ended_at,
     summary |-> tbl[id].summary]

\* the Observation struct: every column but normalized_hash
ExportObservation(o) ==
    [id |-> o.id, session_id |-> o.session_id, type |-> o.type, title |-> o.title,
     content |-> o.content, tool_name |-> o.tool_name, project |-> o.project,
     scope |-> o.scope, topic_key |-> o.topic_key,
     revision_count |-> o.revision_count, duplicate_count |-> o.duplicate_count,
     last_seen_at |-> o.last_seen_at, created_at |-> o.created_at,
     updated_at |-> o.updated_at, deleted_at |-> o.deleted_at]

\* Prompt.Project is a plain string: rows.Scan fails on a NULL project
PromptScanFails(p) == p.project = Nil

ScanPrompt(p) ==
    [id |-> p.id, session_id |-> p.session_id, content |-> p.content,
     project |-> p.project[1], created_at |-> p.created_at]

\* an Export that selects no row
ExportNothing(db) ==
    [err |-> FALSE, sessions |-> <<>>, observations |-> <<>>, prompts |-> <<>>]

Export(db) ==
    LET sids == SessionsByStart(db.sessions, DOMAIN db.sessions)
        oids == SortedIds(DOMAIN db.observations)
        pids == SortedIds(DOMAIN db.user_prompts)
    IN IF \E i \in DOMAIN db.user_prompts : PromptScanFails(db.user_prompts[i])
       THEN [err |-> TRUE, sessions |-> <<>>, observations |-> <<>>, prompts |-> <<>>]
       ELSE [err |-> FALSE,
             sessions |-> [i \in 1..Len(sids) |-> ExportSession(db.sessions, sids[i])],
             observations |-> [i \in 1..Len(oids) |->
                                  ExportObservation(db.observations[oids[i]])],
             prompts |-> [i \in 1..Len(pids) |-> ScanPrompt(db.user_prompts[pids[i]])]]

\* INSERT OR IGNORE INTO sessions
RECURSIVE ImportSessions(_, _)
ImportSessions(tbl, ss) ==
    IF ss = <<>> THEN tbl
    ELSE LET x == Head(ss)
         IN ImportSessions(
                IF x.id \in DOMAIN tbl THEN tbl
                ELSE Put(tbl, x.id, [project |-> x.project, directory |-> x.directory,
                                     started_at |-> x.started_at,
                                     ended_at |-> x.ended_at, summary |-> x.summary]),
                Tail(ss))

ImportedRow(obs, id) ==
    [id |-> id, session_id |-> obs.session_id, type |-> obs.type,
     title |-> obs.title, content |-> obs.content, tool_name |-> obs.tool_name,
     project |-> obs.project, scope |-> normalizeScope(obs.scope),
     topic_key |-> nullableText(normalizeTopicKey(derefString(obs.topic_key, <<>>))),
     normalized_hash |-> <<hashNormalized(obs.content)>>,
     revision_count |-> maxInt(obs.revision_count, 1),
     duplicate_count |-> maxInt(obs.duplicate_count, 1),
     last_seen_at |-> obs.last_seen_at, created_at |-> obs.created_at,
     updated_at |-> obs.updated_at, deleted_at |-> obs.deleted_at]

\* each INSERT fires obs_fts_insert; a missing session fails the foreign key
RECURSIVE ImportObservations(_, _)
ImportObservations(d, os) ==
    IF os = <<>> \/ d.err THEN d
    ELSE LET obs == Head(os)
             id == NextId(d.db.obsSeq, d.db.observations)
             row == ImportedRow(obs, id)
         IN IF obs.session_id \notin DOMAIN d.db.sessions
            THEN [d EXCEPT !.err = TRUE]
            ELSE ImportObservations(
                     [d EXCEPT !.db.observations = Put(@, id, row),
                               !.db.obsSeq = id,
                               !.db.observations_fts = FtsInsert(@, row),
                               !.observations_imported = @ + 1],
                     Tail(os))

RECURSIVE ImportPrompts(_, _)
ImportPrompts(d, ps) ==
    IF ps = <<>> \/ d.err THEN d
    ELSE LET p == Head(ps)
             id == NextId(d.db.promptSeq, d.db.user_prompts)
             row == [id |-> id, session_id |-> p.session_id, content |-> p.content,
                     project |-> <<p.project>>, created_at |-> p.created_at]
         IN IF p.session_id \notin DOMAIN d.db.sessions
            THEN [d EXCEPT !.err = TRUE]
            ELSE ImportPrompts(
                     [d EXCEPT !.db.user_prompts = Put(@, id, row),
                               !.db.promptSeq = id,
                               !.db.prompts_fts = Put(@, id, PromptFtsDoc(row)),
                               !.prompts_imported = @ + 1],
                     Tail(ps))

\* an Import that keeps the rows inserted before the failing one
ImportIntoNoRollback(db, data) ==
    LET s1 == ImportSessions(db.sessions, data.sessions)
        d0 == [err |-> FALSE, db |-> [db EXCEPT !.sessions = s1],
               sessions_imported |-> 0, observations_imported |-> 0,
               prompts_imported |-> 0]
    IN ImportPrompts(ImportObservations(d0, data.observations), data.prompts)

\* the transaction of Import: the database it commits, or err and the
\* database rolled back to db
ImportInto(db, data) ==
    LET s1 == ImportSessions(db.sessions, data.sessions)
        d0 == [err |-> FALSE, db |-> [db EXCEPT !.sessions = s1],
               sessions_imported |-> Cardinality(DOMAIN s1) - Cardinality(DOMAIN db.sessions),
               observations_imported |-> 0, prompts_imported |-> 0]
        d2 == ImportPrompts(ImportObservations(d0, data.observations), data.prompts)
    IN IF d2.err
       THEN [err |-> TRUE, db |-> db, sessions_imported |-> 0,
             observations_imported |-> 0, prompts_imported |-> 0]
       ELSE d2

Import(data) ==
    LET r == ImportInto(DB, data)
    IN
    /\ steps' = steps + 1
    /\ hist' = Dropped
    /\ SetDB(r.db)
    /\ assigned' = assigned \cup DOMAIN r.db.observations
    /\ last' = [op |-> "Import", err |-> r.err, id |-> 0, data |-> data,
                sessions_imported |-> r.sessions_imported,
                observations_imported |-> r.observations_imported,
                prompts_imported |-> r.prompts_imported]
    /\ UNCHANGED now
    /\ UNCHANGED syncVars

\* ------------------------------------------------------------------- sync
\* SELECT chunk_id FROM sync_chunks
GetSyncedChunks(tbl) == tbl

\* a RecordSyncedChunk whose INSERT is lost
RecordNoChunk(tbl, chunkID) == tbl

\* INSERT OR IGNORE INTO sync_chunks (chunk_id)
RecordSyncedChunk(tbl, chunkID) == tbl \cup {chunkID}

\* the records of a chunk file, one line per session, observation and prompt
ChunkContent(data) ==
    [sessions |-> data.sessions, observations |-> data.observations,
     prompts |-> data.prompts]

\* the chunk id is the digest of the uncompressed content; the digest is
\* modelled by the content it is taken of
ChunkId(content) == content

ChunkIsEmpty(content) ==
    content.sessions = <<>> /\ content.observations = <<>> /\ content.prompts = <<>>

\* a filter that keeps the observations and prompts whose own project field
\* is the project
filterExportByOwnProject(data, project) ==
    LET InProject(x) == x.project = project
        OfProject(x) == x.project = <<project>>
    IN [data EXCEPT !.sessions = SelectSeq(@, InProject),
                    !.observations = SelectSeq(@, OfProject),
                    !.prompts = SelectSeq(@, InProject)]

\* filterExportByProject of the command line: the sessions of the project,
\* then the observations and prompts whose session is one of them
filterExportByProject(data, project) ==
    LET InProject(x) == x.project = project
        ss == SelectSeq(data.sessions, InProject)
        sessionIDs == {ss[i].id : i \in 1..Len(ss)}
        OfKept(x) == x.session_id \in sessionIDs
    IN [data EXCEPT !.sessions = ss,
                    !.observations = SelectSeq(@, OfKept),
                    !.prompts = SelectSeq(@, OfKept)]

\* the sessions of a project, their observations and their prompts; no
\* project selects everything
FilterProject(data, project) ==
    LET InProject(x) == x.project = project
        ss == SelectSeq(data.sessions, InProject)
        sids == {ss[i].id : i \in 1..Len(ss)}
        OfKept(x) == x.session_id \in sids
    IN IF project = "" THEN data
       ELSE [data EXCEPT !.sessions = ss,
                         !.observations = SelectSeq(@, OfKept),
                         !.prompts = SelectSeq(@, OfKept)]

\* when the newest chunk of the manifest was written; -1 with no chunk
LastChunkTime(entries) ==
    IF entries = <<>> THEN 0 - 1 ELSE entries[Len(entries)].created_at

\* the records newer than the last chunk
FilterNew(data, since) ==
    LET Started(x) == x.started_at > since
        Created(x) == x.created_at > since
    IN [data EXCEPT !.sessions = SelectSeq(@, Started),
                    !.observations = SelectSeq(@, Created),
                    !.prompts = SelectSeq(@, Created)]

\* sync: export the database, keep the project's new records, and write them
\* as one chunk unless there are none or the chunk is already recorded
SyncExport(createdBy, project) ==
    LET data == Export(DB)
        content == ChunkContent(FilterNew(FilterProject(data, project),
                                          LastChunkTime(manifest)))
        id == ChunkId(content)
        entry == [id |-> id, created_by |-> createdBy, project |-> project,
                  sessions |-> Len(content.sessions),
                  observations |-> Len(content.observations),
                  prompts |-> Len(content.prompts), created_at |-> now]
    IN
    /\ steps' = steps + 1
    /\ IF data.err
       THEN /\ last' = [op |-> "SyncExport", err |-> TRUE, project |-> project,
                        is_empty |-> FALSE]
            /\ UNCHANGED syncVars
       ELSE IF ChunkIsEmpty(content) \/ id \in GetSyncedChunks(sync_chunks)
       THEN /\ last' = [op |-> "SyncExport", err |-> FALSE, project |-> project,
                        is_empty |-> TRUE]
            /\ UNCHANGED syncVars
       ELSE /\ chunkFiles' = Put(chunkFiles, id, content)
            /\ manifest' = Append(manifest, entry)
            /\ sync_chunks' = RecordSyncedChunk(sync_chunks, id)
            /\ last' = [op |-> "SyncExport", err |-> FALSE, project |-> project,
                        is_empty |-> FALSE]
    /\ UNCHANGED <<dbVars, now, hist, assigned>>

\* sync --import over the manifest entries, oldest first: a chunk already in
\* sync_chunks is skipped, any other is imported and then recorded; the
\* first chunk whose import fails ends the run
RECURSIVE ApplyChunks(_, _, _)
ApplyChunks(r, entries, files) ==
    IF entries = <<>> \/ r.err THEN r
    ELSE LET id == Head(entries).id
             imp == ImportInto(r.db, files[id])
         IN IF id \in GetSyncedChunks(r.synced)
            THEN ApplyChunks([r EXCEPT !.chunks_skipped = @ + 1], Tail(entries), files)
            ELSE IF imp.err
            THEN [r EXCEPT !.err = TRUE]
            ELSE ApplyChunks(
                     [r EXCEPT !.db = imp.db,
                               !.synced = RecordSyncedChunk(@, id),
                               !.chunks_imported = @ + 1,
                               !.applied = Append(@, id)],
                     Tail(entries), files)

SyncImportInto(db, synced, entries, files) ==
    ApplyChunks([err |-> FALSE, db |-> db, synced |-> synced, chunks_imported |-> 0,
                 chunks_skipped |-> 0, applied |-> <<>>], entries, files)

SyncImport ==
    LET r == SyncImportInto(DB, sync_chunks, manifest, chunkFiles)
    IN
    /\ steps' = steps + 1
    /\ hist' = Dropped
    /\ SetDB(r.db)
    /\ sync_chunks' = r.synced
    /\ assigned' = assigned \cup DOMAIN r.db.observations
    /\ last' = [op |-> "SyncImport", err |-> r.err,
                chunks_imported |-> r.chunks_imported,
                chunks_skipped |-> r.chunks_skipped, applied |-> r.applied]
    /\ UNCHANGED <<now, manifest, chunkFiles>>

\* version control brings in a chunk written by another checkout
Pull(content) ==
    /\ ChunkId(content) \notin DOMAIN chunkFiles
    /\ steps' = steps + 1
    /\ chunkFiles' = Put(chunkFiles, ChunkId(content), content)
    /\ manifest' = Append(manifest,
           [id |-> ChunkId(content), created_by |-> "juan", project |-> "",
            sessions |-> Len(content.sessions),
            observations |-> Len(content.observations),
            prompts |-> Len(content.prompts), created_at |-> now])
    /\ last' = [op |-> "Pull", err |-> FALSE]
    /\ UNCHANGED <<dbVars, sync_chunks, now, hist, assigned>>

\* ------------------------------------------------------ legacy migration
\* the id column of a legacy observations table is a plain INT column: NULL,
\* repeated, zero and negative values can be in it
LegacyIds == {Nil, <<0 - 1>>, <<0>>, <<1>>, <<2>>, <<7>>}

\* the legacy tables: the id column of the rows, in rowid order
LegacyTables == UNION {[1..n -> LegacyIds] : n \in 0..MaxLegacyRows}

LegacyTitle == <<"l", "e", "g", "a", "c", "y">>

LegacyMark == <<"1", "2", "3", "4", "5", "6", "7", "8", "9">>

\* ROW_NUMBER() OVER (PARTITION BY id ORDER BY rowid) = 1
FirstOfFamily(ids, i) == \A j \in 1..(i - 1) : ids[j] # ids[i]

\* the id the copy gives to INSERT: NULL for a NULL id and for every row of
\* a family but its first
MigratedId(ids, i) ==
    IF ids[i] = Nil THEN Nil
    ELSE IF FirstOfFamily(ids, i) THEN ids[i]
    ELSE Nil

\* the row of observations_migrated for legacy row i, with the defaults of
\* the added columns
MigratedRow(id, i) ==
    [id |-> id, session_id |-> "s1", type |-> "bugfix", title |-> LegacyTitle,
     content |-> <<"r", LegacyMark[i]>>, tool_name |-> Nil,
     project |-> <<"engram">>, scope |-> ProjectScope, topic_key |-> Nil,
     normalized_hash |-> Nil, revision_count |-> 1, duplicate_count |-> 1,
     last_seen_at |-> Nil, created_at |-> 0, updated_at |-> 0, deleted_at |-> Nil]

\* INSERT INTO observations_migrated ... SELECT ... ORDER BY rowid: the rows
\* go in one by one; a NULL id takes the next AUTOINCREMENT id, and an id
\* that is already in the table fails the primary key
RECURSIVE CopyRows(_, _, _)
CopyRows(d, ids, i) ==
    IF i > Len(ids) \/ d.err THEN d
    ELSE LET want == MigratedId(ids, i)
             id == IF want = Nil THEN NextId(d.seq, d.tbl) ELSE want[1]
         IN IF id \in DOMAIN d.tbl
            THEN [d EXCEPT !.err = TRUE]
            ELSE CopyRows([d EXCEPT !.tbl = Put(@, id, MigratedRow(id, i)),
                                    !.seq = maxInt(@, id)], ids, i + 1)

LegacySessions ==
    [id \in {"s1"} |-> [project |-> "engram", directory |-> "/w", started_at |-> 0,
                        ended_at |-> Nil, summary |-> Nil]]

\* New on a database with a legacy observations table: the migrated tables
\* and the rebuilt FTS index, or err with the transaction rolled back
migrateLegacyObservationsTable(ids) ==
    LET d == CopyRows([err |-> FALSE, tbl |-> <<>>, seq |-> 0], ids, 1)
    IN IF d.err THEN [err |-> TRUE, db |-> EmptyDB]
       ELSE [err |-> FALSE,
             db |-> [EmptyDB EXCEPT
                        !.sessions = LegacySessions,
                        !.observations = d.tbl,
                        !.obsSeq = d.seq,
                        !.observations_fts =
                            [id \in Live(d.tbl) |-> FtsDoc(d.tbl[id])]]]

\* the state after New on a legacy database
InitLegacy ==
    \E ids \in LegacyTables :
        LET r == migrateLegacyObservationsTable(ids)
        IN /\ sessions = r.db.sessions
           /\ observations = r.db.observations
           /\ obsSeq = r.db.obsSeq
           /\ observations_fts = r.db.observations_fts
           /\ user_prompts = <<>>
           /\ promptSeq = 0
           /\ prompts_fts = <<>>
           /\ now = 0
           /\ last = [op |-> "New", err |-> r.err, legacy |-> ids]
           /\ hist = Dropped
           /\ assigned = DOMAIN r.db.observations
           /\ steps = 0
           /\ sync_chunks = {}
           /\ manifest = <<>>
           /\ chunkFiles = <<>>

\* ------------------------------------------------------------------ reads
\* the sets of rows a SELECT ... ORDER BY key DESC LIMIT limit may return:
\* rows of equal key come in either order
TopSets(cands, key, limit) ==
    LET n == IF Cardinality(cands) < limit THEN Cardinality(cands) ELSE limit
    IN {R \in SUBSET cands :
           /\ Cardinality(R) = n
           /\ \A r \in R : \A x \in cands \ R : key[x] <= key[r]}

\* the listing query without its deleted_at IS NULL condition
ListAllRows(db, project, scope) ==
    {id \in DOMAIN db.observations :
        /\ project = "" \/ db.observations[id].project = <<project>>
        /\ scope = <<>> \/ db.observations[id].scope = normalizeScope(scope)}

\* the listing query without its scope condition
ListAnyScope(db, project, scope) ==
    {id \in Live(db.observations) :
        project = "" \/ db.observations[id].project = <<project>>}

ListCandidates(db, project, scope) ==
    {id \in Live(db.observations) :
        /\ project = "" \/ db.observations[id].project = <<project>>
        /\ scope = <<>> \/ db.observations[id].scope = normalizeScope(scope)}

RecentObservations(db, project, scope, limit) ==
    LET lim == IF limit <= 0 THEN MaxContextResults ELSE limit
        cands == ListCandidates(db, project, scope)
        key == [id \in cands |-> db.observations[id].created_at]
    IN TopSets(cands, key, lim)

AllObservations(db, project, scope, limit) ==
    LET lim == IF limit <= 0 THEN MaxContextResults ELSE limit
        cands == ListCandidates(db, project, scope)
        key == [id \in cands |-> db.observations[id].created_at]
    IN TopSets(cands, key, lim)

\* ORDER BY created_at ASC
SessionObservations(db, sessionID, limit) ==
    LET lim == IF limit <= 0 THEN 200 ELSE limit
        cands == {id \in Live(db.observations) :
                     db.observations[id].session_id = sessionID}
        key == [id \in cands |-> 0 - db.observations[id].created_at]
    IN TopSets(cands, key, lim)

\* COUNT(o.id) of the LEFT JOIN ... AND o.deleted_at IS NULL
ObservationCount(db, sid) ==
    Cardinality({id \in Live(db.observations) : db.observations[id].session_id = sid})

RecentSessions(db, project, limit) ==
    LET lim == IF limit <= 0 THEN 5 ELSE limit
        cands == {sid \in DOMAIN db.sessions :
                     project = "" \/ db.sessions[sid].project = project}
        key == [sid \in cands |-> db.sessions[sid].started_at]
        picks == TopSets(cands, key, lim)
    IN {[sid \in R |-> ObservationCount(db, sid)] : R \in picks}

AllSessions(db, project, limit) ==
    RecentSessions(db, project, IF limit <= 0 THEN 50 ELSE limit)

\* the possible outcomes of RecentPrompts: the ids listed, or err when a
\* listed row has a NULL project
RecentPrompts(db, project, limit) ==
    LET lim == IF limit <= 0 THEN 20 ELSE limit
        cands == {id \in DOMAIN db.user_prompts :
                     project = "" \/ db.user_prompts[id].project = <<project>>}
        key == [id \in cands |-> db.user_prompts[id].created_at]
        picks == TopSets(cands, key, lim)
    IN {[err |-> \E id \in R : PromptScanFails(db.user_prompts[id]), ids |-> R] :
           R \in picks}

\* the observations before (id DESC LIMIT n, reversed) and after (id ASC
\* LIMIT n) the focus, in its session
RECURSIVE TakeSeq(_, _)
TakeSeq(q, n) == IF n <= 0 \/ q = <<>> THEN <<>> ELSE <<Head(q)>> \o TakeSeq(Tail(q), n - 1)

Reverse(q) == [i \in 1..Len(q) |-> q[Len(q) + 1 - i]]

\* a Timeline whose three queries lack their deleted_at IS NULL condition
TimelineWithDeleted(db, observationID, beforeArg, afterArg) ==
    LET before == IF beforeArg <= 0 THEN 5 ELSE beforeArg
        after == IF afterArg <= 0 THEN 5 ELSE afterArg
        got == GetObservation(db.observations, observationID)
        focus == got[1]
        same == {id \in DOMAIN db.observations :
                    db.observations[id].session_id = focus.session_id}
        older == SortedIds({id \in same : id < observationID})
        newer == SortedIds({id \in same : id > observationID})
    IN IF got = Nil
       THEN [err |-> TRUE, before |-> <<>>, after |-> <<>>, total_in_range |-> 0]
       ELSE [err |-> FALSE,
             before |-> Reverse(TakeSeq(Reverse(older), before)),
             after |-> TakeSeq(newer, after),
             total_in_range |-> Cardinality(same)]

\* a Timeline that hands its arguments to LIMIT as they are
TimelineAsGiven(db, observationID, beforeArg, afterArg) ==
    LET got == GetObservation(db.observations, observationID)
        focus == got[1]
        same == {id \in Live(db.observations) :
                    db.observations[id].session_id = focus.session_id}
        older == SortedIds({id \in same : id < observationID})
        newer == SortedIds({id \in same : id > observationID})
    IN IF got = Nil
       THEN [err |-> TRUE, before |-> <<>>, after |-> <<>>, total_in_range |-> 0]
       ELSE [err |-> FALSE,
             before |-> Reverse(TakeSeq(Reverse(older), beforeArg)),
             after |-> TakeSeq(newer, afterArg),
             total_in_range |-> Cardinality(same)]

Timeline(db, observationID, beforeArg, afterArg) ==
    LET before == IF beforeArg <= 0 THEN 5 ELSE beforeArg
        after == IF afterArg <= 0 THEN 5 ELSE afterArg
        got == GetObservation(db.observations, observationID)
        focus == got[1]
        same == {id \in Live(db.observations) :
                    db.observations[id].session_id = focus.session_id}
        older == SortedIds({id \in same : id < observationID})
        newer == SortedIds({id \in same : id > observationID})
    IN IF got = Nil
       THEN [err |-> TRUE, before |-> <<>>, after |-> <<>>, total_in_range |-> 0]
       ELSE [err |-> FALSE,
             before |-> Reverse(TakeSeq(Reverse(older), before)),
             after |-> TakeSeq(newer, after),
             total_in_range |-> Cardinality(same)]

Stats(db) ==
    [total_sessions |-> Cardinality(DOMAIN db.sessions),
     total_observations |-> Cardinality(Live(db.observations)),
     total_prompts |-> Cardinality(DOMAIN db.user_prompts),
     projects |-> {db.observations[id].project[1] :
                     id \in {i \in Live(db.observations) :
                                db.observations[i].project # Nil}}]

\* ----------------------------------------------------------------- search
IsTokenChar(c) == c \in LowerLetters \/ c \in DOMAIN UpperLetters \/ c \in Digits

\* the unicode61 tokenizer: case-folded runs of letters and digits
Tokens(text) ==
    Fields([i \in 1..Len(text) |->
               IF IsTokenChar(text[i]) THEN Lower(text[i]) ELSE " "])

\* the spelling of the session ids, types, tool names and projects in use
Spell ==
    [decision |-> <<"d", "e", "c", "i", "s", "i", "o", "n">>,
     bugfix |-> <<"b", "u", "g", "f", "i", "x">>,
     engram |-> <<"e", "n", "g", "r", "a", "m">>,
     edit |-> <<"e", "d", "i", "t">>]

SpellPtr(v) == IF v = Nil THEN <<>> ELSE Spell[v[1]]

\* the token sequences of the five indexed columns
DocColumns(doc) ==
    {Tokens(doc.title), Tokens(doc.content), Tokens(SpellPtr(doc.tool_name)),
     Tokens(Spell[doc.type]), Tokens(SpellPtr(doc.project))}

PhraseIn(col, phrase) ==
    \E i \in 1..(Len(col) - Len(phrase) + 1) :
        SubSeq(col, i, i + Len(phrase) - 1) = phrase

\* strings.Trim(w, `"`)
TrimQuotes(w) ==
    LET keep == {i \in 1..Len(w) : w[i] # "\""}
    IN IF keep = {} THEN <<>> ELSE SubSeq(w, Min(keep), Max(keep))

\* the words sanitizeFTS wraps in quotes and joins with spaces
sanitizeFTS(query) ==
    LET words == Fields(query)
    IN [i \in 1..Len(words) |-> <<"\"">> \o TrimQuotes(words[i]) \o <<"\"">>]

\* the FTS5 query lexer over the expression text: a string runs from a
\* double quote to the next double quote that is not doubled, a bareword is
\* a run of letters and digits, and anything else outside a string, or a
\* string left open at the end, is a syntax error
RECURSIVE Lex(_, _, _, _, _)
Lex(s, i, mode, cur, items) ==
    LET closed == IF mode = "bare" THEN items \cup {cur} ELSE items
    IN IF i > Len(s)
       THEN [err |-> mode = "str", phrases |-> closed]
       ELSE IF mode = "str"
       THEN IF s[i] # "\""
            THEN Lex(s, i + 1, "str", Append(cur, s[i]), items)
            ELSE IF i < Len(s) /\ s[i + 1] = "\""
            THEN Lex(s, i + 2, "str", Append(cur, "\""), items)
            ELSE Lex(s, i + 1, "out", <<>>, items \cup {cur})
       ELSE IF s[i] = "\"" THEN Lex(s, i + 1, "str", <<>>, closed)
       ELSE IF IsSpace(s[i]) THEN Lex(s, i + 1, "out", <<>>, closed)
       ELSE IF IsTokenChar(s[i]) THEN Lex(s, i + 1, "bare", Append(cur, s[i]), items)
       ELSE [err |-> TRUE, phrases |-> {}]

LexExpr(expr) == Lex(Join(expr, <<" ">>), 1, "out", <<>>, {})

\* an empty MATCH expression is a syntax error too
MatchSyntaxError(expr) == expr = <<>> \/ LexExpr(expr).err

\* the phrases of the expression, all of which a row must hold
Phrases(expr) == {Tokens(ph) : ph \in LexExpr(expr).phrases}

Matches(doc, expr) ==
    \A ph \in Phrases(expr) :
        ph # <<>> /\ \E col \in DocColumns(doc) : PhraseIn(col, ph)

NoOptions == [type |-> "", project |-> "", scope |-> <<>>, limit |-> 0]

\* the possible outcomes of SearchPrompts: the ids listed, or err when the
\* expression is malformed or a listed row has a NULL project
SearchPrompts(db, query, project, limit) ==
    LET lim == IF limit <= 0 THEN 10 ELSE limit
        expr == sanitizeFTS(query)
        cands == {id \in DOMAIN db.prompts_fts :
                     /\ id \in DOMAIN db.user_prompts
                     /\ \A ph \in Phrases(expr) :
                           /\ ph # <<>>
                           /\ \E col \in {Tokens(db.prompts_fts[id].content),
                                          Tokens(SpellPtr(db.prompts_fts[id].project))} :
                                 PhraseIn(col, ph)
                     /\ project = "" \/ db.user_prompts[id].project = <<project>>}
        n == IF Cardinality(cands) < lim THEN Cardinality(cands) ELSE lim
    IN IF MatchSyntaxError(expr)
       THEN {[err |-> TRUE, ids |-> {}]}
       ELSE {[err |-> \E id \in R : PromptScanFails(db.user_prompts[id]), ids |-> R] :
                R \in {X \in SUBSET cands : Cardinality(X) = n}}

\* the join without its o.deleted_at IS NULL condition
SearchCandidatesOfIndex(db, query, opts) ==
    {id \in DOMAIN db.observations_fts :
        /\ id \in DOMAIN db.observations
        /\ Matches(db.observations_fts[id], sanitizeFTS(query))
        /\ opts.type = "" \/ db.observations[id].type = opts.type
        /\ opts.project = "" \/ db.observations[id].project = <<opts.project>>
        /\ opts.scope = <<>> \/ db.observations[id].scope = normalizeScope(opts.scope)}

SearchCandidates(db, query, opts) ==
    {id \in DOMAIN db.observations_fts :
        /\ id \in Live(db.observations)
        /\ Matches(db.observations_fts[id], sanitizeFTS(query))
        /\ opts.type = "" \/ db.observations[id].type = opts.type
        /\ opts.project = "" \/ db.observations[id].project = <<opts.project>>
        /\ opts.scope = <<>> \/ db.observations[id].scope = normalizeScope(opts.scope)}

\* the possible results of Search: rank decides which rows a LIMIT keeps
Search(db, query, opts) ==
    LET l0 == IF opts.limit <= 0 THEN 10 ELSE opts.limit
        limit == IF l0 > MaxSearchResults THEN MaxSearchResults ELSE l0
        cands == SearchCandidates(db, query, opts)
        n == IF Cardinality(cands) < limit THEN Cardinality(cands) ELSE limit
    IN IF MatchSyntaxError(sanitizeFTS(query))
       THEN {[err |-> TRUE, ids |-> {}]}
       ELSE {[err |-> FALSE, ids |-> R] : R \in {X \in SUBSET cands : Cardinality(X) = n}}

\* what FormatContext lists, or err when one of its three queries fails
FormatContext(db, project, scope) ==
    {[err |-> pr.err, sessions |-> ss,
      observations |-> IF pr.err THEN {} ELSE os,
      prompts |-> IF pr.err THEN {} ELSE pr.ids] :
        ss \in RecentSessions(db, project, 5),
        os \in RecentObservations(db, project, scope, MaxContextResults),
        pr \in RecentPrompts(db, project, 10)}

Queries ==
    { <<"a">>, <<"c", "d">>, <<"s">>, <<"e", "n", "g", "r", "a", "m">>,
      <<"A", "u", "t", "h", " ", "d", "e", "c", "i", "s", "i", "o", "n">> }

\* query texts of printable characters: empty, blank, quoted, with FTS
\* operators, and with a quote inside a word
PrintableQueries ==
    { <<>>, <<" ">>, <<"a">>, <<"z", "z">>, <<"\"", "a", "\"">>,
      <<"a", "*", " ", "-", "b">>, <<"a", " ", "O", "R", " ", "(", "b">>,
      <<"a", "\"", "\"", "b">>, <<"a", "\"", "b">>, <<"\"">> }

\* ----------------------------------------------------------------- inputs
OpenTagUpper == <<"<", "P", "R", "I", "V", "A", "T", "E", ">">>

CloseTagMixed == <<"<", "/", "P", "r", "i", "v", "a", "t", "e", ">">>

TitleAuth == <<"A", "u", "t", "h">>

TitleSecret == <<"K", "e", "y", " ">> \o OpenTag \o <<"k", "k">> \o CloseTag

ContentAB == <<"a", " ", "b">>

ContentAB2 == <<" ", "a", " ", " ", "b", "\n">>

ContentABUpper == <<"A", " ", "B">>

ContentCD == <<"c", "d">>

\* a region that spans a line break, cut by the length cap after redaction
ContentSecret ==
    <<"x", " ", "y", " ">> \o OpenTagUpper \o <<"s", "\n", "s">> \o CloseTagMixed
        \o <<" ", "z">>

TopicAuthRaw == <<"A", "u", "t", "h", " ", " ", "M", "o", "d", "e", "l">>

TopicAuth == <<"a", "u", "t", "h", "-", "m", "o", "d", "e", "l">>

TopicBug == <<"b", "u", "g">>

ScopePersonalRaw == <<" ", "P", "e", "r", "s", "o", "n", "a", "l">>

ScopeTeam == <<"t", "e", "a", "m">>

SessionIds == {"s1", "s2"}

BaseAdd == [session_id |-> "s1", type |-> "decision", title |-> TitleAuth,
            content |-> ContentAB, tool_name |-> "", project |-> "engram",
            scope |-> <<>>, topic_key |-> <<>>]

AddInputs ==
    { BaseAdd,
      [BaseAdd EXCEPT !.content = ContentAB2, !.scope = ScopeTeam],
      [BaseAdd EXCEPT !.content = ContentABUpper],
      [BaseAdd EXCEPT !.topic_key = TopicAuthRaw],
      [BaseAdd EXCEPT !.topic_key = TopicAuth, !.content = ContentCD,
                      !.tool_name = "edit"],
      [BaseAdd EXCEPT !.topic_key = TopicAuth, !.scope = ScopePersonalRaw],
      [BaseAdd EXCEPT !.topic_key = TopicAuth, !.project = ""],
      [BaseAdd EXCEPT !.topic_key = TopicBug],
      [BaseAdd EXCEPT !.topic_key = TopicBug, !.content = ContentCD,
                      !.type = "bugfix"],
      [BaseAdd EXCEPT !.session_id = "s2", !.title = TitleSecret,
                      !.content = ContentSecret] }

NoUpdate == [type |-> Nil, title |-> Nil, content |-> Nil, project |-> Nil,
             scope |-> Nil, topic_key |-> Nil]

UpdateInputs ==
    { [NoUpdate EXCEPT !.topic_key = <<TopicAuthRaw>>],
      [NoUpdate EXCEPT !.content = <<ContentSecret>>, !.scope = <<ScopePersonalRaw>>],
      [NoUpdate EXCEPT !.title = <<TitleSecret>>, !.project = <<"">>] }

PromptInputs ==
    { [session_id |-> "s1", content |-> ContentAB, project |-> "engram"],
      [session_id |-> "s1", content |-> ContentSecret, project |-> ""] }

\* a snapshot written by another checkout
ForeignObservation ==
    [id |-> 7, session_id |-> "s9", type |-> "decision", title |-> TitleAuth,
     content |-> ContentCD, tool_name |-> Nil, project |-> <<"engram">>,
     scope |-> ProjectScope, topic_key |-> <<TopicAuth>>, revision_count |-> 2,
     duplicate_count |-> 1, last_seen_at |-> <<0>>, created_at |-> 0,
     updated_at |-> 0, deleted_at |-> Nil]

ForeignSession ==
    [id |-> "s9", project |-> "engram", directory |-> "/w", started_at |-> 0,
     ended_at |-> Nil, summary |-> Nil]

ForeignData ==
    [err |-> FALSE, sessions |-> <<ForeignSession>>,
     observations |-> <<ForeignObservation,
                        [ForeignObservation EXCEPT !.id = 9, !.topic_key = Nil,
                                                   !.deleted_at = <<0>>]>>,
     prompts |-> <<[id |-> 3, session_id |-> "s9", content |-> ContentAB,
                    project |-> "engram", created_at |-> 0]>>]

\* a snapshot whose observation names a session that is in neither the
\* snapshot nor the store
OrphanData ==
    [ForeignData EXCEPT !.sessions = <<>>, !.prompts = <<>>]

\* a snapshot whose second observation names a session that is in neither
\* the snapshot nor the store
HalfOrphanData ==
    [ForeignData EXCEPT !.observations[2].session_id = "s7"]

\* a snapshot whose title and contents hold <private> regions
SecretData ==
    [ForeignData EXCEPT !.observations[1].title = TitleSecret,
                        !.observations[1].content = ContentSecret,
                        !.prompts[1].content = ContentSecret]

ImportInputs ==
    {ForeignData, OrphanData, HalfOrphanData, SecretData} \cup (IF Export(DB).err THEN {} ELSE {Export(DB)})

\* texts built from plain pieces and <private> regions; the letters s and k
\* occur inside regions only
PlainPieces == { <<"a", " ", "b">>, <<" ">>, <<"\n">>, OpenTag, CloseTag }

RegionPieces ==
    { OpenTag \o <<"s">> \o CloseTag,
      OpenTagUpper \o <<"s", "\n", "k">> \o CloseTagMixed,
      OpenTag \o <<"k">> \o OpenTag \o <<"s">> \o CloseTag,
      OpenTag \o CloseTag }

Pieces == PlainPieces \cup RegionPieces

RedactTexts == Pieces \cup {a \o b : a \in Pieces, b \in Pieces}

SyncAddInputs ==
    { BaseAdd,
      [BaseAdd EXCEPT !.session_id = "s2", !.content = ContentCD,
                      !.project = "other"] }

\* topic keys: none, mixed case with blanks, blank, longer than the cap, with
\* a two-byte character, and with a two-byte character across the cap
TopicLong == [i \in 1..(TopicKeyMaxLen + 3) |-> IF i = 4 THEN " " ELSE "a"]

TopicAccent == <<"C", "a", "f", "C3", "A9">>

TopicLongAccent == [i \in 1..(TopicKeyMaxLen - 1) |-> "a"] \o <<"C3", "A9">>

TopicKeyInputs ==
    { <<>>, <<" ", "\t">>, TopicAuthRaw, TopicLong, TopicAccent, TopicLongAccent }

\* types, titles and contents for SuggestTopicKey: the calls of the
\* repository's tests, a type of punctuation only, a type of the store's own
\* kind, long values, a redacted title and a title that repeats the family
SuggestTypes ==
    { <<>>, <<"A", "r", "c", "h", "i", "t", "e", "c", "t", "u", "r", "e">>,
      <<"b", "u", "g", "f", "i", "x">>, TypeManual, <<"?", "?", "?">>,
      <<"M", "y", " ", "N", "o", "t", "e">>,
      [i \in 1..SuggestLongLen |-> "x"] }

SuggestTitles ==
    { <<>>, <<" ", " ", "A", "u", "t", "h", " ", "M", "o", "d", "e", "l", " ", " ">>,
      <<"A", "D", "R", ":", " ", "S", "p", "l", "i", "t", " ", "A", "P", "I">>,
      <<"b", "u", "g", " ", "-", " ", "b", "u", "g">>,
      <<"!", "!">>, TitleSecret,
      [i \in 1..(TopicSegmentMaxLen + 5) |-> IF i % 7 = 0 THEN " " ELSE "y"] }

SuggestContents ==
    { <<>>, <<"i", "g", "n", "o", "r", "e", "d">>,
      <<"F", "i", "x", " ", "n", "i", "l", " ", "p", "a", "n", "i", "c", " ",
        "i", "n", " ", "a", " ", "b", " ", "c", " ", "d", " ", "e", " ", "f">>,
      <<"C3", "A9", " ", "?">> }

\* a snapshot of two sessions whose observations interleave, one of them
\* soft-deleted, all with the same words
TimelineData ==
    [err |-> FALSE,
     sessions |-> <<ForeignSession, [ForeignSession EXCEPT !.id = "s8"]>>,
     observations |->
         [i \in 1..TimelineRows |->
             [ForeignObservation EXCEPT
                 !.id = i,
                 !.session_id = IF i \in {3, 8} THEN "s8" ELSE "s9",
                 !.topic_key = Nil,
                 !.deleted_at = IF i = 5 THEN <<0>> ELSE Nil]],
     prompts |-> <<>>]

\* calls at the edges of the contract: an unknown or an empty session id, an
\* update that names no field, a prompt without content
EdgeAddInputs ==
    { BaseAdd,
      [BaseAdd EXCEPT !.content = ContentCD],
      [BaseAdd EXCEPT !.topic_key = TopicAuth],
      [BaseAdd EXCEPT !.session_id = ""],
      [BaseAdd EXCEPT !.session_id = "s2"] }

EdgeUpdateInputs == { NoUpdate, [NoUpdate EXCEPT !.content = <<ContentCD>>] }

EdgePromptInputs ==
    { [session_id |-> "s1", content |-> <<>>, project |-> "engram"],
      [session_id |-> "s1", content |-> ContentAB, project |-> "engram"] }

ObservationIds == 1..(obsSeq + 1)

\* ----------------------------------------------------------- transitions
DoCreateSession ==
    /\ steps < MaxOps
    /\ \E id \in SessionIds : CreateSession(id, "engram", "/w")

DoEndSession ==
    /\ steps < MaxOps
    /\ \E id \in SessionIds : EndSession(id, "done")

DoAddObservation ==
    /\ steps < MaxOps
    /\ \E p \in AddInputs : AddObservation(p)

DoUpdateObservation ==
    /\ steps < MaxOps
    /\ \E id \in ObservationIds : \E p \in UpdateInputs : UpdateObservation(id, p)

DoDeleteObservation ==
    /\ steps < MaxOps
    /\ \E id \in ObservationIds : \E hard \in BOOLEAN : DeleteObservation(id, hard)

DoAddPrompt ==
    /\ steps < MaxOps
    /\ \E p \in PromptInputs : AddPrompt(p)

DoImport ==
    /\ steps < MaxOps
    /\ \E data \in ImportInputs : Import(data)

Next ==
    \/ Tick
    \/ DoCreateSession
    \/ DoEndSession
    \/ DoAddObservation
    \/ DoUpdateObservation
    \/ DoDeleteObservation
    \/ DoAddPrompt
    \/ DoImport

Spec == Init /\ [][Next]_vars

\* the store driven by AddObservation alone, for the properties of sequences
\* of AddObservation calls
OnlyCreateSession ==
    /\ steps < MaxAddOps
    /\ CreateSession("s1", "engram", "/w")

OnlyAddObservation ==
    /\ steps < MaxAddOps
    /\ \E p \in AddInputs : AddObservation(p)

NextAdd ==
    \/ Tick
    \/ OnlyCreateSession
    \/ OnlyAddObservation

SpecAdd == Init /\ [][NextAdd]_vars

\* the store driven by the three calls that redact, over RedactTexts, each
\* called on a session or an observation that exists
RedactCreateSession ==
    /\ steps < MaxRedactOps
    /\ CreateSession("s1", "engram", "/w")

RedactAddObservation ==
    /\ steps < MaxRedactOps
    /\ "s1" \in DOMAIN sessions
    /\ \E t \in RedactTexts :
          AddObservation([BaseAdd EXCEPT !.title = t, !.content = t])

RedactUpdateObservation ==
    /\ steps < MaxRedactOps
    /\ \E id \in DOMAIN observations : \E t \in RedactTexts :
          \/ UpdateObservation(id, [NoUpdate EXCEPT !.title = <<t>>])
          \/ UpdateObservation(id, [NoUpdate EXCEPT !.content = <<t>>])

RedactAddPrompt ==
    /\ steps < MaxRedactOps
    /\ "s1" \in DOMAIN sessions
    /\ \E t \in RedactTexts :
          AddPrompt([session_id |-> "s1", content |-> t, project |-> "engram"])

NextRedact ==
    \/ RedactCreateSession
    \/ RedactAddObservation
    \/ RedactUpdateObservation
    \/ RedactAddPrompt

SpecRedact == Init /\ [][NextRedact]_vars

\* the store and the chunk directory of one checkout under sync
SyncCreateSession ==
    /\ steps < MaxSyncOps
    /\ \/ CreateSession("s1", "engram", "/w")
       \/ CreateSession("s2", "other", "/o")

SyncAddObservation ==
    /\ steps < MaxSyncOps
    /\ \E p \in SyncAddInputs : AddObservation(p)

SyncAddPrompt ==
    /\ steps < MaxSyncOps
    /\ \E p \in PromptInputs : AddPrompt(p)

DoSyncExport ==
    /\ steps < MaxSyncOps
    /\ \E project \in {"", "engram"} : SyncExport("alan", project)

DoSyncImport ==
    /\ steps < MaxSyncOps
    /\ SyncImport

DoPull ==
    /\ steps < MaxSyncOps
    /\ \E data \in ImportInputs : Pull(ChunkContent(data))

NextSync ==
    \/ Tick
    \/ SyncCreateSession
    \/ SyncAddObservation
    \/ SyncAddPrompt
    \/ DoSyncExport
    \/ DoSyncImport
    \/ DoPull

SpecSync == Init /\ [][NextSync]_vars

\* a store opened on a legacy database; no call can be made when New failed
LegacyAddObservation ==
    /\ steps < MaxLegacyOps
    /\ "s1" \in DOMAIN sessions
    /\ \E p \in {BaseAdd, [BaseAdd EXCEPT !.content = ContentCD]} : AddObservation(p)

LegacyDeleteObservation ==
    /\ steps < MaxLegacyOps
    /\ \E id \in DOMAIN observations : DeleteObservation(id, TRUE)

NextLegacy ==
    \/ Tick
    \/ LegacyAddObservation
    \/ LegacyDeleteObservation

SpecLegacy == InitLegacy /\ [][NextLegacy]_vars

\* the writers of topic_key over TopicKeyInputs
TopicCreateSession ==
    /\ steps < MaxTopicOps
    /\ CreateSession("s1", "engram", "/w")

TopicAddObservation ==
    /\ steps < MaxTopicOps
    /\ \E k \in TopicKeyInputs : AddObservation([BaseAdd EXCEPT !.topic_key = k])

TopicUpdateObservation ==
    /\ steps < MaxTopicOps
    /\ \E id \in DOMAIN observations, k \in TopicKeyInputs :
          UpdateObservation(id, [NoUpdate EXCEPT !.topic_key = <<k>>])

TopicImport ==
    /\ steps < MaxTopicOps
    /\ \E k \in TopicKeyInputs :
          Import([ForeignData EXCEPT
                     !.observations[1].topic_key = IF k = <<>> THEN Nil ELSE <<k>>])

NextTopic ==
    \/ Tick
    \/ TopicCreateSession
    \/ TopicAddObservation
    \/ TopicUpdateObservation
    \/ TopicImport

SpecTopic == Init /\ [][NextTopic]_vars

\* calls of SuggestTopicKey, which reads and writes no table
DoSuggestTopicKey ==
    /\ steps < MaxSuggestOps
    /\ \E typ \in SuggestTypes, title \in SuggestTitles, content \in SuggestContents :
          /\ steps' = steps + 1
          /\ last' = [op |-> "SuggestTopicKey", err |-> FALSE, typ |-> typ,
                      title |-> title, content |-> content,
                      key |-> SuggestTopicKey(typ, title, content)]
          /\ UNCHANGED <<dbVars, syncVars, now, hist, assigned>>

NextSuggest ==
    \/ Tick
    \/ DoSuggestTopicKey

SpecSuggest == Init /\ [][NextSuggest]_vars

\* the store driven by calls at the edges of the contract
EdgeCreateSession ==
    /\ steps < MaxEdgeOps
    /\ \E id \in {"s1", ""} :
          \/ CreateSession(id, "engram", "/w")
          \/ CreateSession(id, "other", "/o")

EdgeEndSession ==
    /\ steps < MaxEdgeOps
    /\ \E id \in {"s1", "s3"} : EndSession(id, "done")

EdgeAddObservation ==
    /\ steps < MaxEdgeOps
    /\ \E p \in EdgeAddInputs : AddObservation(p)

EdgeHandleSave ==
    /\ steps < MaxEdgeOps
    /\ \E id \in {"s1", "s2", ""} : handleSave([BaseAdd EXCEPT !.session_id = id])

EdgeUpdateObservation ==
    /\ steps < MaxEdgeOps
    /\ \E id \in ObservationIds : \E p \in EdgeUpdateInputs : UpdateObservation(id, p)

EdgeDeleteObservation ==
    /\ steps < MaxEdgeOps
    /\ \E id \in ObservationIds : \E hard \in BOOLEAN : DeleteObservation(id, hard)

EdgeAddPrompt ==
    /\ steps < MaxEdgeOps
    /\ \E p \in EdgePromptInputs : AddPrompt(p)

NextEdge ==
    \/ Tick
    \/ EdgeCreateSession
    \/ EdgeEndSession
    \/ EdgeAddObservation
    \/ EdgeHandleSave
    \/ EdgeUpdateObservation
    \/ EdgeDeleteObservation
    \/ EdgeAddPrompt

SpecEdge == Init /\ [][NextEdge]_vars

\* a store filled by one import, with deletions
TimelineImport ==
    /\ steps < MaxTimelineOps
    /\ observations = <<>>
    /\ Import(TimelineData)

TimelineDeleteObservation ==
    /\ steps < MaxTimelineOps
    /\ \E id \in DOMAIN observations : \E hard \in BOOLEAN : DeleteObservation(id, hard)

NextTimeline ==
    \/ TimelineImport
    \/ TimelineDeleteObservation

SpecTimeline == Init /\ [][NextTimeline]_vars

\* ------------------------------------------------------- passive capture
\* The text handed to passive capture is a sequence of learnings sections,
\* oldest first, each the sequence of its list items. ExtractLearnings
\* returns the items of the last section that has an item of at least
\* MinLearningLength characters, short items left out.
ExtractLearnings(text) ==
    LET valid == [k \in 1..Len(text) |->
                     SelectSeq(text[k], LAMBDA item : Len(item) >= MinLearningLength)]
        good == {k \in 1..Len(text) : valid[k] # <<>>}
    IN IF good = {} THEN <<>> ELSE valid[Max(good)]

\* Store.PassiveCapture: every extracted learning is looked up by the hash
\* of its normalized content among the live observations of the project and
\* of scope project; a hit counts a duplicate, a miss inserts an observation
\* of type passive with tool_name = source and counts a save. An insert for
\* a session that does not exist fails and the error is returned.
PassiveCapture(p) ==
    LET learnings == ExtractLearnings(p.content)
        n == Len(learnings)
        scope == normalizeScope(<<>>)
        run[i \in 0..n] ==
            IF i = 0
            THEN [observations |-> observations, obsSeq |-> obsSeq,
                  observations_fts |-> observations_fts,
                  saved |-> 0, duplicates |-> 0, err |-> FALSE]
            ELSE LET st == run[i - 1]
                     title == stripPrivateTags(learnings[i])
                     content == truncateContent(stripPrivateTags(learnings[i]))
                     normHash == hashNormalized(content)
                     seen == {o \in Live(st.observations) :
                                 /\ st.observations[o].normalized_hash = <<normHash>>
                                 /\ st.observations[o].project = nullableString(p.project)
                                 /\ st.observations[o].scope = scope}
                     newId == NextId(st.obsSeq, st.observations)
                     row == [id |-> newId, session_id |-> p.session_id,
                             type |-> "passive", title |-> title, content |-> content,
                             tool_name |-> nullableString(p.source),
                             project |-> nullableString(p.project), scope |-> scope,
                             topic_key |-> Nil, normalized_hash |-> <<normHash>>,
                             revision_count |-> 1, duplicate_count |-> 1,
                             last_seen_at |-> <<now>>, created_at |-> now,
                             updated_at |-> now, deleted_at |-> Nil]
                 IN IF st.err THEN st
                    ELSE IF seen # {} THEN [st EXCEPT !.duplicates = @ + 1]
                    ELSE IF p.session_id \notin DOMAIN sessions
                    THEN [st EXCEPT !.err = TRUE]
                    ELSE [st EXCEPT !.observations = Put(@, newId, row),
                                    !.obsSeq = newId,
                                    !.observations_fts = FtsInsert(@, row),
                                    !.saved = @ + 1]
        res == run[n]
    IN
    /\ steps' = steps + 1
    /\ observations' = res.observations
    /\ obsSeq' = res.obsSeq
    /\ observations_fts' = res.observations_fts
    /\ last' = [op |-> "PassiveCapture", err |-> res.err, p |-> p,
                extracted |-> n, saved |-> res.saved, duplicates |-> res.duplicates]
    /\ hist' = Dropped
    /\ assigned' = assigned \cup DOMAIN res.observations
    /\ UNCHANGED <<sessions, user_prompts, promptSeq, prompts_fts, now>>
    /\ UNCHANGED syncVars

\* the texts handed to passive capture
PassiveInputs ==
    { [session_id |-> sid, content |-> text, project |-> project, source |-> "edit"] :
        sid \in {"s1", "s2"}, project \in {"engram", ""},
        text \in { <<>>,
                   << <<ContentAB, ContentCD>> >>,
                   << <<ContentABUpper, <<"a">> >> >>,
                   << <<ContentAB2, ContentAB>> >>,
                   << <<ContentCD>>, << <<"a">> >> >> } }

\* the store under active saves, deletions and passive captures
DoPassiveCapture ==
    /\ steps < MaxPassiveOps
    /\ \E p \in PassiveInputs : PassiveCapture(p)

PassiveSetup ==
    /\ steps < MaxPassiveOps
    /\ \/ CreateSession("s1", "engram", "/w")
       \/ \E scope \in {<<>>, Personal} :
             AddObservation([BaseAdd EXCEPT !.scope = scope])
       \/ \E id \in ObservationIds : DeleteObservation(id, FALSE)

NextPassive ==
    \/ Tick
    \/ PassiveSetup
    \/ DoPassiveCapture

SpecPassive == Init /\ [][NextPassive]_vars

\* ------------------------------------------------ concurrent AddObservation
\* Two callers run AddObservation on the same store handle. The call is a
\* sequence of statements on the connection pool with no transaction and no
\* lock around them: the topic lookup, the dedupe lookup, and one write. Each
\* statement is one step; `last` holds the position and the locals of each
\* call in flight.
Callers == {1, 2}

RaceInputs == {BaseAdd, [BaseAdd EXCEPT !.topic_key = TopicAuth]}

InFlight ==
    IF last.op = "Race" THEN last.calls
    ELSE [c \in Callers |-> [pc |-> "idle", p |-> BaseAdd, id |-> 0, err |-> FALSE]]

SetInFlight(c, call) ==
    last' = [op |-> "Race", err |-> FALSE, calls |-> [InFlight EXCEPT ![c] = call]]

\* the session is there before the calls start
RaceCreateSession ==
    /\ steps < MaxRaceOps
    /\ last.op # "Race"
    /\ CreateSession("s1", "engram", "/w")

\* a caller enters AddObservation: the arguments are normalized, no
\* statement has run yet
RaceBegin ==
    /\ steps < MaxRaceOps
    /\ \E c \in Callers, p \in RaceInputs :
          /\ InFlight[c].pc = "idle"
          /\ SetInFlight(c, [pc |-> IF normalizeTopicKey(p.topic_key) # <<>>
                                    THEN "topic" ELSE "dedupe",
                             p |-> p, id |-> 0, err |-> FALSE])
    /\ steps' = steps + 1
    /\ UNCHANGED <<dbVars, syncVars, now, hist, assigned>>

\* the next SELECT of a call: the topic lookup, then the dedupe lookup
RaceLookup ==
    /\ \E c \in Callers :
          LET call == InFlight[c]
              p == call.p
              title == stripPrivateTags(p.title)
              content == truncateContent(stripPrivateTags(p.content))
              scope == normalizeScope(p.scope)
              byTopic == TopicMatches(observations, normalizeTopicKey(p.topic_key),
                                      p.project, scope)
              byHash == DedupeMatches(observations, hashNormalized(content),
                                      p.project, scope, p.type, title, now)
          IN \/ /\ call.pc = "topic"
                /\ IF byTopic = {}
                   THEN SetInFlight(c, [call EXCEPT !.pc = "dedupe"])
                   ELSE \E e \in Newest(byTopic,
                                        [o \in byTopic |-> TopicOrder(observations[o])]) :
                           SetInFlight(c, [call EXCEPT !.pc = "upsert", !.id = e])
             \/ /\ call.pc = "dedupe"
                /\ IF byHash = {}
                   THEN SetInFlight(c, [call EXCEPT !.pc = "insert"])
                   ELSE \E e \in Newest(byHash,
                                        [o \in byHash |-> CreatedOrder(observations[o])]) :
                           SetInFlight(c, [call EXCEPT !.pc = "bump", !.id = e])
    /\ UNCHANGED <<dbVars, syncVars, now, hist, assigned, steps>>

\* the write of a call, decided by the lookups it ran before
RaceWrite ==
    /\ \E c \in Callers :
          LET call == InFlight[c]
              p == call.p
              title == stripPrivateTags(p.title)
              content == truncateContent(stripPrivateTags(p.content))
              scope == normalizeScope(p.scope)
              normHash == hashNormalized(content)
              topicKey == normalizeTopicKey(p.topic_key)
              newId == NextId(obsSeq, observations)
              row == [id |-> newId, session_id |-> p.session_id, type |-> p.type,
                      title |-> title, content |-> content,
                      tool_name |-> nullableString(p.tool_name),
                      project |-> nullableString(p.project), scope |-> scope,
                      topic_key |-> nullableText(topicKey),
                      normalized_hash |-> <<normHash>>,
                      revision_count |-> 1, duplicate_count |-> 1,
                      last_seen_at |-> <<now>>, created_at |-> now, updated_at |-> now,
                      deleted_at |-> Nil]
              old == observations[call.id]
              upserted == [old EXCEPT !.type = p.type, !.title = title,
                                      !.content = content,
                                      !.tool_name = nullableString(p.tool_name),
                                      !.topic_key = nullableText(topicKey),
                                      !.normalized_hash = <<normHash>>,
                                      !.revision_count = @ + 1,
                                      !.last_seen_at = <<now>>,
                                      !.updated_at = now]
              bumped == [old EXCEPT !.duplicate_count = @ + 1,
                                    !.last_seen_at = <<now>>,
                                    !.updated_at = now]
          IN \/ /\ call.pc = "upsert"
                /\ observations' = [observations EXCEPT ![call.id] = upserted]
                /\ observations_fts' = FtsUpdate(observations_fts, old, upserted)
                /\ SetInFlight(c, [call EXCEPT !.pc = "done"])
                /\ UNCHANGED <<obsSeq, assigned>>
             \/ /\ call.pc = "bump"
                /\ observations' = [observations EXCEPT ![call.id] = bumped]
                /\ observations_fts' = FtsUpdate(observations_fts, old, bumped)
                /\ SetInFlight(c, [call EXCEPT !.pc = "done"])
                /\ UNCHANGED <<obsSeq, assigned>>
             \/ /\ call.pc = "insert"
                /\ IF p.session_id \notin DOMAIN sessions
                   THEN /\ SetInFlight(c, [call EXCEPT !.pc = "done", !.err = TRUE])
                        /\ UNCHANGED <<observations, obsSeq, observations_fts, assigned>>
                   ELSE /\ observations' = Put(observations, newId, row)
                        /\ obsSeq' = newId
                        /\ observations_fts' = FtsInsert(observations_fts, row)
                        /\ assigned' = assigned \cup {newId}
                        /\ SetInFlight(c, [call EXCEPT !.pc = "done", !.id = newId])
    /\ hist' = Dropped
    /\ UNCHANGED <<sessions, user_prompts, promptSeq, prompts_fts, now, steps>>
    /\ UNCHANGED syncVars

NextRace ==
    \/ Tick
    \/ RaceCreateSession
    \/ RaceBegin
    \/ RaceLookup
    \/ RaceWrite

SpecRace == Init /\ [][NextRace]_vars

\* ---------------------------------------------- concurrent UpdateObservation
\* Two callers run UpdateObservation on the row saved before them. The call
\* is two statements with no transaction around them: GetObservation, whose
\* row fills every field the request leaves out, and the UPDATE, which
\* writes every column.
UpdateRaceInputs ==
    {[NoUpdate EXCEPT !.title = <<ContentCD>>], [NoUpdate EXCEPT !.content = <<ContentCD>>]}

UpdatesInFlight ==
    IF last.op = "UpdateRace" THEN last.calls
    ELSE [c \in Callers |-> [pc |-> "idle", p |-> NoUpdate, obs |-> Nil, err |-> FALSE]]

SetUpdateInFlight(c, call) ==
    last' = [op |-> "UpdateRace", err |-> FALSE,
             calls |-> [UpdatesInFlight EXCEPT ![c] = call]]

\* the row the two calls update: one observation of one session, saved
\* before they start
UpdateRaceSeed ==
    \/ /\ sessions = <<>>
       /\ CreateSession("s1", "engram", "/w")
    \/ /\ observations = <<>>
       /\ last.op = "CreateSession"
       /\ AddObservation(BaseAdd)

\* UpdateObservation(1, p), one statement at a time
RaceUpdate ==
    \E c \in Callers :
        LET call == UpdatesInFlight[c]
            p == call.p
            got == GetObservation(observations, 1)
            obs == call.obs[1]
            typ == IF p.type # Nil THEN p.type[1] ELSE obs.type
            title == IF p.title # Nil THEN stripPrivateTags(p.title[1]) ELSE obs.title
            content == IF p.content # Nil
                       THEN truncateContent(stripPrivateTags(p.content[1]))
                       ELSE obs.content
            project == IF p.project # Nil THEN p.project[1]
                       ELSE derefString(obs.project, "")
            scope == IF p.scope # Nil THEN normalizeScope(p.scope[1]) ELSE obs.scope
            topicKey == IF p.topic_key # Nil THEN normalizeTopicKey(p.topic_key[1])
                        ELSE derefString(obs.topic_key, <<>>)
            old == observations[1]
            new == [old EXCEPT !.type = typ, !.title = title, !.content = content,
                               !.project = nullableString(project), !.scope = scope,
                               !.topic_key = nullableText(topicKey),
                               !.normalized_hash = <<hashNormalized(content)>>,
                               !.revision_count = @ + 1,
                               !.updated_at = now]
        IN \/ \* obs, err := s.GetObservation(id)
              /\ call.pc = "idle"
              /\ last.op \in {"AddObservation", "UpdateRace"}
              /\ \E q \in UpdateRaceInputs :
                    SetUpdateInFlight(c, [pc |-> IF got = Nil THEN "done" ELSE "write",
                                          p |-> q, obs |-> got, err |-> got = Nil])
              /\ steps' = steps + 1
              /\ UNCHANGED <<dbVars, hist>>
           \/ \* UPDATE observations SET ... WHERE id = ? AND deleted_at IS NULL
              /\ call.pc = "write"
              /\ IF 1 \in Live(observations)
                 THEN /\ observations' = [observations EXCEPT ![1] = new]
                      /\ observations_fts' = FtsUpdate(observations_fts, old, new)
                 ELSE UNCHANGED <<observations, observations_fts>>
              /\ SetUpdateInFlight(c, [call EXCEPT !.pc = "done",
                                                   !.err = 1 \notin Live(observations)])
              /\ hist' = Dropped
              /\ UNCHANGED <<sessions, obsSeq, user_prompts, promptSeq, prompts_fts, steps>>
    /\ UNCHANGED <<syncVars, now, assigned>>

NextUpdateRace ==
    \/ Tick
    \/ UpdateRaceSeed
    \/ RaceUpdate

SpecUpdateRace == Init /\ [][NextUpdateRace]_vars

\* ------------------------------------------------- sync import, call by call
\* Sync import applies a chunk with two calls of the store: Import, which
\* commits the chunk's rows in its own transaction, and RecordSyncedChunk,
\* a statement of its own. Each call is one step; the run can end between
\* the two (the process is stopped, or RecordSyncedChunk returns an error).
\* hist.calls lists the chunk ids whose Import has committed.
ChunkStep ==
    LET pending == {i \in 1..Len(manifest) :
                       manifest[i].id \notin GetSyncedChunks(sync_chunks)}
        id == manifest[Min(pending)].id
        imp == ImportInto(DB, chunkFiles[id])
    IN \/ \* s.Import(chunk)
          /\ steps < MaxSyncOps
          /\ last.op # "ImportingChunk"
          /\ pending # {}
          /\ steps' = steps + 1
          /\ SetDB(imp.db)
          /\ assigned' = assigned \cup DOMAIN imp.db.observations
          /\ hist' = IF imp.err THEN hist
                     ELSE [pure |-> FALSE,
                           calls |-> IF hist.pure THEN <<id>> ELSE Append(hist.calls, id)]
          /\ last' = [op |-> IF imp.err THEN "SyncImport" ELSE "ImportingChunk",
                      err |-> imp.err, id |-> id]
          /\ UNCHANGED <<now, syncVars>>
       \/ \* s.RecordSyncedChunk(chunk id)
          /\ last.op = "ImportingChunk"
          /\ sync_chunks' = RecordSyncedChunk(sync_chunks, last.id)
          /\ last' = [op |-> "SyncImport", err |-> FALSE, id |-> last.id]
          /\ UNCHANGED <<dbVars, now, hist, assigned, steps, manifest, chunkFiles>>
       \/ \* the run ends before RecordSyncedChunk has written
          /\ last.op = "ImportingChunk"
          /\ last' = [op |-> "SyncImport", err |-> TRUE, id |-> last.id]
          /\ UNCHANGED <<dbVars, syncVars, now, hist, assigned, steps>>

ChunkPull ==
    /\ last.op # "ImportingChunk"
    /\ DoPull

NextChunk ==
    \/ ChunkPull
    \/ ChunkStep

SpecChunk == Init /\ [][NextChunk]_vars

\* ------------------------------------------------- opening a database file
\* A database file as New finds it: the tables in it, the columns of its
\* observations table, whether the id column is the declared primary key,
\* the rows of observations (the id column of a legacy table, or the rows of
\* a migrated one) and the rows of observations_fts.
SchemaTables ==
    {"sessions", "observations", "observations_fts", "user_prompts", "prompts_fts",
     "sync_chunks"}

LegacyColumns ==
    {"id", "session_id", "type", "title", "content", "tool_name", "project",
     "created_at"}

observationColumns ==
    {"scope", "topic_key", "normalized_hash", "revision_count", "duplicate_count",
     "last_seen_at", "updated_at", "deleted_at"}

\* addColumnIfNotExists: ALTER TABLE ... ADD COLUMN, a statement of its own
addColumnIfNotExists(columns, name) == columns \cup {name}

\* Store.migrate on a file: the schema statements and the added columns are
\* committed one by one before the legacy migration starts; the legacy
\* migration runs in a transaction and is skipped when id is the primary key
migrate(file) ==
    LET tables == file.tables \cup SchemaTables
        columns == UNION {addColumnIfNotExists(file.columns, c) : c \in observationColumns}
        prepared == [file EXCEPT !.tables = tables, !.columns = columns]
        r == migrateLegacyObservationsTable(file.rows)
    IN IF file.pk THEN [err |-> FALSE, file |-> prepared]
       ELSE IF r.err THEN [err |-> TRUE, file |-> prepared]
       ELSE [err |-> FALSE,
             file |-> [prepared EXCEPT !.pk = TRUE, !.rows = r.db.observations,
                                       !.fts = r.db.observations_fts]]

\* the legacy files: a legacy table with or without the tables and columns
\* that later versions added, no FTS rows
LegacyFiles ==
    { [tables |-> {"sessions", "observations"} \cup more,
       columns |-> LegacyColumns \cup added, pk |-> FALSE, rows |-> ids, fts |-> <<>>] :
        more \in {{}, {"user_prompts", "prompts_fts"}},
        added \in {{}, {"scope", "topic_key"}},
        ids \in LegacyTables }

InitOpen ==
    /\ sessions = <<>>
    /\ observations = <<>>
    /\ obsSeq = 0
    /\ observations_fts = <<>>
    /\ user_prompts = <<>>
    /\ promptSeq = 0
    /\ prompts_fts = <<>>
    /\ now = 0
    /\ \E f \in LegacyFiles : last = [op |-> "File", err |-> FALSE, before |-> f, file |-> f]
    /\ hist = Dropped
    /\ assigned = {}
    /\ steps = 0
    /\ sync_chunks = {}
    /\ manifest = <<>>
    /\ chunkFiles = <<>>

\* New on the file, the file as the call leaves it
OpenFile ==
    /\ steps < MaxOpenOps
    /\ LET r == migrate(last.file)
       IN last' = [op |-> "New", err |-> r.err, before |-> last.file, file |-> r.file]
    /\ steps' = steps + 1
    /\ UNCHANGED <<dbVars, syncVars, now, hist, assigned>>

NextOpen ==
    \/ OpenFile

SpecOpen == InitOpen /\ [][NextOpen]_vars

\* ------------------------------------------------ OpenCode plugin: prompts
\* The plugin's message.updated handler posts a user message to the server's
\* /prompts endpoint. The cap of truncate (2000 characters in the plugin) is
\* scaled to MaxPromptLength.
MinPromptLength == 10

Ellipsis == <<".", ".", ".">>

\* engram.ts truncate: the first max characters and "..." when longer
truncate(str, max) ==
    IF Len(str) > max THEN SubSeq(str, 1, max) \o Ellipsis ELSE str

\* engram.ts stripPrivateTags: /<private>[\s\S]*?<\/private>/gi replaced by
\* [REDACTED], then trim()
pluginStripPrivateTags(str) == TrimSpace(ReplaceAllFrom(str, 1))

Padding(n) == [i \in 1..n |-> "a"]

\* user messages: one complete region <private>sk</private> after 0..16
\* plain characters, alone or followed by plain text; and two messages
\* without a region, one of them too short to be captured
PromptMessages ==
    { Padding(n) \o OpenTag \o <<"s", "k">> \o CloseTag \o tail :
          n \in 0..16, tail \in {<<>>, <<" ", "z">>} }
    \cup { Padding(4), Padding(11) }

\* event handler, message.updated of a user message: nothing is sent for a
\* message of at most 10 characters; otherwise ensureSession posts the session
\* once (INSERT OR IGNORE on the server) and the content goes to /prompts as
\* stripPrivateTags(truncate(content, 2000)), where the server stores it with
\* AddPrompt
MessageUpdated(content) ==
    LET sessionId == "s1"
        body == pluginStripPrivateTags(truncate(content, MaxPromptLength))
        stored == truncateContent(stripPrivateTags(body))
        newId == NextId(promptSeq, user_prompts)
        row == [id |-> newId, session_id |-> sessionId, content |-> stored,
                project |-> nullableString("engram"), created_at |-> now]
    IN
    /\ steps' = steps + 1
    /\ IF Len(content) > MinPromptLength
       THEN /\ sessions' = IF sessionId \in DOMAIN sessions THEN sessions
                           ELSE Put(sessions, sessionId,
                                    [project |-> "engram", directory |-> "/w",
                                     started_at |-> now, ended_at |-> Nil,
                                     summary |-> Nil])
            /\ user_prompts' = Put(user_prompts, newId, row)
            /\ promptSeq' = newId
            /\ prompts_fts' = Put(prompts_fts, newId, PromptFtsDoc(row))
            /\ last' = [op |-> "POST /prompts", err |-> FALSE,
                        message |-> content, content |-> body, id |-> newId]
       ELSE /\ last' = [op |-> "message.updated", err |-> FALSE,
                        message |-> content]
            /\ UNCHANGED <<sessions, user_prompts, promptSeq, prompts_fts>>
    /\ UNCHANGED <<observations, obsSeq, observations_fts, now, hist, assigned>>
    /\ UNCHANGED syncVars

DoMessageUpdated ==
    /\ steps < MaxPluginOps
    /\ \E content \in PromptMessages : MessageUpdated(content)

NextPlugin ==
    \/ Tick
    \/ DoMessageUpdated

SpecPlugin == Init /\ [][NextPlugin]_vars

\* -------------------------------------------------------------------- TUI
\* The Bubble Tea model of internal/tui. `last` holds the Model (m), the
\* commands in flight (pending), whether the program has quit, and the
\* number of Esc presses that changed the screen since the last other key,
\* counted up to MaxEscs (escs). The fields that only position the view (Width, Height, Scroll,
\* DetailScroll, SessionDetailScroll, the spinner frame) and the loaded values
\* that no handler reads (Stats, Timeline, SearchQuery, SetupResult) are left
\* out; lists are kept by their length and the search input by whether it
\* holds text.
ScreenDashboard == "ScreenDashboard"

ScreenSearch == "ScreenSearch"

ScreenSearchResults == "ScreenSearchResults"

ScreenRecent == "ScreenRecent"

ScreenObservationDetail == "ScreenObservationDetail"

ScreenTimeline == "ScreenTimeline"

ScreenSessions == "ScreenSessions"

ScreenSessionDetail == "ScreenSessionDetail"

ScreenSetup == "ScreenSetup"

dashboardMenuItems ==
    <<"Search memories", "Recent observations", "Browse sessions",
      "Setup agent plugin", "Quit">>

SupportedAgents == <<"opencode", "claude-code", "gemini-cli", "codex">>

\* keys the user presses; the one-character keys are text for the search input
Keys ==
    {"esc", "enter", "up", "down", "k", "j", " ", "s", "/", "t", "i", "q",
     "x", "backspace", "ctrl+c"}

TextKeys == {"k", "j", " ", "s", "/", "t", "i", "q", "x"}

\* lengths of the lists the store returns to the TUI
ListSizes == {0, 2}

\* tui.New
NewModel ==
    [Screen |-> ScreenDashboard, PrevScreen |-> ScreenDashboard, Cursor |-> 0,
     ErrorMsg |-> FALSE, Focused |-> FALSE, Value |-> FALSE,
     SearchResults |-> 0, RecentObservations |-> 0,
     SelectedObservation |-> FALSE, Sessions |-> 0, SelectedSessionIdx |-> 0,
     SessionObservations |-> 0, SetupDone |-> FALSE,
     SetupInstalling |-> FALSE, SetupError |-> FALSE]

\* what a handler returns: the model, the commands it starts, tea.Quit or not
Step(m, cmd) == [m |-> m, cmd |-> cmd, quit |-> FALSE]

Quit(m) == [m |-> m, cmd |-> <<>>, quit |-> TRUE]

CursorUp(m) == IF m.Cursor > 0 THEN [m EXCEPT !.Cursor = @ - 1] ELSE m

CursorDown(m, len) == IF m.Cursor < len - 1 THEN [m EXCEPT !.Cursor = @ + 1] ELSE m

Selected(m, len) == len > 0 /\ m.Cursor < len

refreshScreen(screen) ==
    CASE screen = ScreenDashboard -> <<"loadStats">>
      [] screen = ScreenRecent -> <<"loadRecentObservations">>
      [] screen = ScreenSessions -> <<"loadRecentSessions">>
      [] OTHER -> <<>>

OpenSearch(m) ==
    [m EXCEPT !.PrevScreen = ScreenDashboard, !.Screen = ScreenSearch,
              !.Cursor = 0, !.Value = FALSE, !.Focused = TRUE]

handleDashboardSelection(m) ==
    CASE m.Cursor = 0 -> Step(OpenSearch(m), <<>>)
      [] m.Cursor = 1 ->
           Step([m EXCEPT !.PrevScreen = ScreenDashboard, !.Screen = ScreenRecent,
                          !.Cursor = 0], <<"loadRecentObservations">>)
      [] m.Cursor = 2 ->
           Step([m EXCEPT !.PrevScreen = ScreenDashboard, !.Screen = ScreenSessions,
                          !.Cursor = 0], <<"loadRecentSessions">>)
      [] m.Cursor = 3 ->
           Step([m EXCEPT !.PrevScreen = ScreenDashboard, !.Screen = ScreenSetup,
                          !.Cursor = 0, !.SetupError = FALSE, !.SetupDone = FALSE,
                          !.SetupInstalling = FALSE], <<>>)
      [] m.Cursor = 4 -> Quit(m)
      [] OTHER -> Step(m, <<>>)

handleDashboardKeys(m, key) ==
    CASE key \in {"up", "k"} -> Step(CursorUp(m), <<>>)
      [] key \in {"down", "j"} -> Step(CursorDown(m, Len(dashboardMenuItems)), <<>>)
      [] key \in {"enter", " "} -> handleDashboardSelection(m)
      [] key \in {"s", "/"} -> Step(OpenSearch(m), <<>>)
      [] key = "q" -> Quit(m)
      [] OTHER -> Step(m, <<>>)

\* Esc in the focused search input shows the search results
handleSearchInputKeysToResults(m, key) ==
    CASE key = "enter" ->
           IF m.Value THEN Step([m EXCEPT !.Focused = FALSE], <<"searchMemories">>)
           ELSE Step(m, <<>>)
      [] key = "esc" ->
           Step([m EXCEPT !.Focused = FALSE, !.Screen = ScreenSearchResults,
                          !.Cursor = 0], <<>>)
      [] key \in TextKeys -> Step([m EXCEPT !.Value = TRUE], <<>>)
      [] key = "backspace" -> Step([m EXCEPT !.Value = FALSE], <<>>)
      [] OTHER -> Step(m, <<>>)

\* the keys of the focused search input: enter searches a non-empty query,
\* esc goes back, and the text input handles the rest
handleSearchInputKeys(m, key) ==
    CASE key = "enter" ->
           IF m.Value THEN Step([m EXCEPT !.Focused = FALSE], <<"searchMemories">>)
           ELSE Step(m, <<>>)
      [] key = "esc" ->
           Step([m EXCEPT !.Focused = FALSE, !.Screen = m.PrevScreen,
                          !.Cursor = 0], <<>>)
      [] key \in TextKeys -> Step([m EXCEPT !.Value = TRUE], <<>>)
      [] key = "backspace" -> Step([m EXCEPT !.Value = FALSE], <<>>)
      [] OTHER -> Step(m, <<>>)

handleSearchKeys(m, key) ==
    CASE key \in {"esc", "q"} ->
           Step([m EXCEPT !.Screen = m.PrevScreen, !.Cursor = 0], <<>>)
      [] key \in {"i", "/"} -> Step([m EXCEPT !.Focused = TRUE], <<>>)
      [] OTHER -> Step(m, <<>>)

handleSearchResultsKeys(m, key) ==
    CASE key \in {"up", "k"} -> Step(CursorUp(m), <<>>)
      [] key \in {"down", "j"} -> Step(CursorDown(m, m.SearchResults), <<>>)
      [] key = "enter" ->
           IF Selected(m, m.SearchResults)
           THEN Step([m EXCEPT !.PrevScreen = ScreenSearchResults],
                     <<"loadObservationDetail">>)
           ELSE Step(m, <<>>)
      [] key = "t" ->
           IF Selected(m, m.SearchResults)
           THEN Step([m EXCEPT !.PrevScreen = ScreenSearchResults],
                     <<"loadTimeline">>)
           ELSE Step(m, <<>>)
      [] key \in {"/", "s"} ->
           Step([m EXCEPT !.PrevScreen = ScreenSearchResults,
                          !.Screen = ScreenSearch, !.Focused = TRUE], <<>>)
      [] key \in {"esc", "q"} ->
           Step([m EXCEPT !.PrevScreen = ScreenDashboard, !.Screen = ScreenSearch,
                          !.Cursor = 0, !.Focused = TRUE], <<>>)
      [] OTHER -> Step(m, <<>>)

handleRecentKeys(m, key) ==
    CASE key \in {"up", "k"} -> Step(CursorUp(m), <<>>)
      [] key \in {"down", "j"} -> Step(CursorDown(m, m.RecentObservations), <<>>)
      [] key = "enter" ->
           IF Selected(m, m.RecentObservations)
           THEN Step([m EXCEPT !.PrevScreen = ScreenRecent],
                     <<"loadObservationDetail">>)
           ELSE Step(m, <<>>)
      [] key = "t" ->
           IF Selected(m, m.RecentObservations)
           THEN Step([m EXCEPT !.PrevScreen = ScreenRecent], <<"loadTimeline">>)
           ELSE Step(m, <<>>)
      [] key \in {"esc", "q"} ->
           Step([m EXCEPT !.Screen = ScreenDashboard, !.Cursor = 0],
                <<"loadStats">>)
      [] OTHER -> Step(m, <<>>)

handleObservationDetailKeys(m, key) ==
    CASE key = "t" ->
           IF m.SelectedObservation THEN Step(m, <<"loadTimeline">>)
           ELSE Step(m, <<>>)
      [] key \in {"esc", "q"} ->
           Step([m EXCEPT !.Screen = m.PrevScreen, !.Cursor = 0],
                refreshScreen(m.PrevScreen))
      [] OTHER -> Step(m, <<>>)

handleTimelineKeys(m, key) ==
    CASE key \in {"esc", "q"} ->
           Step([m EXCEPT !.Screen = m.PrevScreen, !.Cursor = 0],
                refreshScreen(m.PrevScreen))
      [] OTHER -> Step(m, <<>>)

handleSessionsKeys(m, key) ==
    CASE key \in {"up", "k"} -> Step(CursorUp(m), <<>>)
      [] key \in {"down", "j"} -> Step(CursorDown(m, m.Sessions), <<>>)
      [] key = "enter" ->
           IF Selected(m, m.Sessions)
           THEN Step([m EXCEPT !.SelectedSessionIdx = m.Cursor,
                               !.PrevScreen = ScreenSessions],
                     <<"loadSessionObservations">>)
           ELSE Step(m, <<>>)
      [] key \in {"esc", "q"} ->
           Step([m EXCEPT !.Screen = ScreenDashboard, !.Cursor = 0],
                <<"loadStats">>)
      [] OTHER -> Step(m, <<>>)

handleSessionDetailKeys(m, key) ==
    CASE key \in {"up", "k"} -> Step(CursorUp(m), <<>>)
      [] key \in {"down", "j"} -> Step(CursorDown(m, m.SessionObservations), <<>>)
      [] key = "enter" ->
           IF Selected(m, m.SessionObservations)
           THEN Step([m EXCEPT !.PrevScreen = ScreenSessionDetail],
                     <<"loadObservationDetail">>)
           ELSE Step(m, <<>>)
      [] key = "t" ->
           IF Selected(m, m.SessionObservations)
           THEN Step([m EXCEPT !.PrevScreen = ScreenSessionDetail],
                     <<"loadTimeline">>)
           ELSE Step(m, <<>>)
      [] key \in {"esc", "q"} ->
           Step([m EXCEPT !.Screen = ScreenSessions,
                          !.Cursor = m.SelectedSessionIdx],
                <<"loadRecentSessions">>)
      [] OTHER -> Step(m, <<>>)

\* every key is dropped while an install runs; after it, esc, q and enter
\* go back to the dashboard
handleSetupKeys(m, key) ==
    IF m.SetupInstalling THEN Step(m, <<>>)
    ELSE IF m.SetupDone
    THEN IF key \in {"esc", "q", "enter"}
         THEN Step([m EXCEPT !.Screen = ScreenDashboard, !.Cursor = 0,
                             !.SetupDone = FALSE, !.SetupError = FALSE],
                   <<"loadStats">>)
         ELSE Step(m, <<>>)
    ELSE CASE key \in {"up", "k"} -> Step(CursorUp(m), <<>>)
           [] key \in {"down", "j"} -> Step(CursorDown(m, Len(SupportedAgents)), <<>>)
           [] key = "enter" ->
                IF Selected(m, Len(SupportedAgents))
                THEN Step([m EXCEPT !.SetupInstalling = TRUE], <<"installAgent">>)
                ELSE Step(m, <<>>)
           [] key \in {"esc", "q"} ->
                Step([m EXCEPT !.Screen = ScreenDashboard, !.Cursor = 0],
                     <<"loadStats">>)
           [] OTHER -> Step(m, <<>>)

\* the key press router: the error line is cleared, then the screen's handler
handleKeyPress(m0, key) ==
    LET m == [m0 EXCEPT !.ErrorMsg = FALSE]
    IN CASE m.Screen = ScreenDashboard -> handleDashboardKeys(m, key)
         [] m.Screen = ScreenSearch -> handleSearchKeys(m, key)
         [] m.Screen = ScreenSearchResults -> handleSearchResultsKeys(m, key)
         [] m.Screen = ScreenRecent -> handleRecentKeys(m, key)
         [] m.Screen = ScreenObservationDetail -> handleObservationDetailKeys(m, key)
         [] m.Screen = ScreenTimeline -> handleTimelineKeys(m, key)
         [] m.Screen = ScreenSessions -> handleSessionsKeys(m, key)
         [] m.Screen = ScreenSessionDetail -> handleSessionDetailKeys(m, key)
         [] m.Screen = ScreenSetup -> handleSetupKeys(m, key)
         [] OTHER -> Step(m, <<>>)

\* Update of a tea.KeyMsg
UpdateKey(m, key) ==
    IF key = "ctrl+c" THEN Quit(m)
    ELSE IF m.Screen = ScreenSearch /\ m.Focused THEN handleSearchInputKeys(m, key)
    ELSE handleKeyPress(m, key)

\* the messages a command can come back with
Outcomes(cmd) ==
    CASE cmd = "loadStats" -> {[type |-> "statsLoadedMsg", err |-> e, n |-> 0] : e \in BOOLEAN}
      [] cmd = "searchMemories" ->
           {[type |-> "searchResultsMsg", err |-> FALSE, n |-> n] : n \in ListSizes}
           \cup {[type |-> "searchResultsMsg", err |-> TRUE, n |-> 0]}
      [] cmd = "loadRecentObservations" ->
           {[type |-> "recentObservationsMsg", err |-> FALSE, n |-> n] : n \in ListSizes}
           \cup {[type |-> "recentObservationsMsg", err |-> TRUE, n |-> 0]}
      [] cmd = "loadObservationDetail" ->
           {[type |-> "observationDetailMsg", err |-> e, n |-> 0] : e \in BOOLEAN}
      [] cmd = "loadTimeline" ->
           {[type |-> "timelineMsg", err |-> e, n |-> 0] : e \in BOOLEAN}
      [] cmd = "loadRecentSessions" ->
           {[type |-> "recentSessionsMsg", err |-> FALSE, n |-> n] : n \in ListSizes}
           \cup {[type |-> "recentSessionsMsg", err |-> TRUE, n |-> 0]}
      [] cmd = "loadSessionObservations" ->
           {[type |-> "sessionObservationsMsg", err |-> FALSE, n |-> n] : n \in ListSizes}
           \cup {[type |-> "sessionObservationsMsg", err |-> TRUE, n |-> 0]}
      [] cmd = "installAgent" ->
           {[type |-> "setupInstallMsg", err |-> e, n |-> 0] : e \in BOOLEAN}

\* Update of a data-loaded message
UpdateMsg(m, msg) ==
    IF msg.type = "setupInstallMsg"
    THEN [m EXCEPT !.SetupInstalling = FALSE, !.SetupDone = TRUE,
                   !.SetupError = msg.err]
    ELSE IF msg.err THEN [m EXCEPT !.ErrorMsg = TRUE]
    ELSE CASE msg.type = "statsLoadedMsg" -> m
           [] msg.type = "searchResultsMsg" ->
                [m EXCEPT !.SearchResults = msg.n, !.Screen = ScreenSearchResults,
                          !.Cursor = 0]
           [] msg.type = "recentObservationsMsg" ->
                [m EXCEPT !.RecentObservations = msg.n]
           [] msg.type = "observationDetailMsg" ->
                [m EXCEPT !.SelectedObservation = TRUE,
                          !.Screen = ScreenObservationDetail]
           [] msg.type = "timelineMsg" -> [m EXCEPT !.Screen = ScreenTimeline]
           [] msg.type = "recentSessionsMsg" -> [m EXCEPT !.Sessions = msg.n]
           [] msg.type = "sessionObservationsMsg" ->
                [m EXCEPT !.SessionObservations = msg.n,
                          !.Screen = ScreenSessionDetail, !.Cursor = 0]

\* the program after tea.NewProgram(New(...)).Run calls Init: loadStats runs
InitTUI ==
    /\ sessions = <<>>
    /\ observations = <<>>
    /\ obsSeq = 0
    /\ observations_fts = <<>>
    /\ user_prompts = <<>>
    /\ promptSeq = 0
    /\ prompts_fts = <<>>
    /\ now = 0
    /\ last = [op |-> "TUI", err |-> FALSE, m |-> NewModel,
               pending |-> <<"loadStats">>, quit |-> FALSE, escs |-> 0]
    /\ hist = Dropped
    /\ assigned = {}
    /\ steps = 0
    /\ sync_chunks = {}
    /\ manifest = <<>>
    /\ chunkFiles = <<>>

AfterKey(key, countEsc) ==
    LET r == UpdateKey(last.m, key)
    IN last' = [last EXCEPT !.m = r.m, !.pending = @ \o r.cmd, !.quit = r.quit,
                            !.escs = IF ~countEsc THEN 0
                                     ELSE IF r.m.Screen # last.m.Screen
                                     THEN Min({@ + 1, MaxEscs}) ELSE @]

\* the user presses Esc
PressEsc ==
    /\ ~last.quit
    /\ AfterKey("esc", TRUE)
    /\ UNCHANGED <<dbVars, syncVars, now, hist, assigned, steps>>

\* the user presses another key
PressKey ==
    /\ ~last.quit
    /\ steps < MaxTUIKeys
    /\ \E key \in Keys \ {"esc"} : AfterKey(key, FALSE)
    /\ steps' = steps + 1
    /\ UNCHANGED <<dbVars, syncVars, now, hist, assigned>>

\* a command in flight finishes and the runtime hands its message to Update
Deliver ==
    /\ ~last.quit
    /\ \E i \in 1..Len(last.pending) : \E msg \in Outcomes(last.pending[i]) :
          last' = [last EXCEPT !.m = UpdateMsg(last.m, msg),
                               !.pending = SubSeq(@, 1, i - 1)
                                           \o SubSeq(@, i + 1, Len(@))]
    /\ UNCHANGED <<dbVars, syncVars, now, hist, assigned, steps>>

NextTUI ==
    \/ PressEsc
    \/ PressKey
    \/ Deliver

SpecTUI == InitTUI /\ [][NextTUI]_vars

\* the user keeps pressing Esc, and the runtime delivers the message of
\* every command that was started
SpecTUIEsc == SpecTUI /\ WF_vars(PressEsc) /\ WF_vars(Deliver)

\* ============================================================= properties
Calls == hist.calls

NCalls == Len(hist.calls)

\* what a call's content is once redacted and truncated
Persisted(content) == truncateContent(stripPrivateTags(content))

TopicTriple(p) ==
    <<normalizeTopicKey(p.topic_key), p.project, normalizeScope(p.scope)>>

RowsOfTriple(t) ==
    {id \in DOMAIN observations :
        /\ observations[id].topic_key = <<t[1]>>
        /\ derefString(observations[id].project, "") = t[2]
        /\ observations[id].scope = t[3]}

\* every write so far is a successful AddObservation with one topic triple
SharedTopicRun ==
    /\ hist.pure
    /\ NCalls >= 1
    /\ TopicTriple(Calls[1].p)[1] # <<>>
    /\ \A i \in 1..NCalls : TopicTriple(Calls[i].p) = TopicTriple(Calls[1].p)

\* C1: after n >= 1 AddObservation calls that share one non-empty normalized
\* topic key, project and scope, exactly one row exists for that triple,
\* every call returned its id, its revision_count is n, its content is the
\* (redacted, truncated) content of the last call and its created_at is the
\* time of the first call.
C1_TopicUpsertKeepsOneRow ==
    SharedTopicRun =>
        LET rows == RowsOfTriple(TopicTriple(Calls[1].p))
        IN /\ Cardinality(rows) = 1
           /\ Cardinality(DOMAIN observations) = 1
           /\ \A i \in 1..NCalls : Calls[i].id \in rows
           /\ \A id \in rows :
                 /\ observations[id].revision_count = NCalls
                 /\ observations[id].content = Persisted(Calls[NCalls].p.content)
                 /\ observations[id].created_at = Calls[1].at
                 /\ observations[id].deleted_at = Nil

C1_Witness ==
    /\ SharedTopicRun
    /\ NCalls = 3
    /\ Calls[1].p.content # Calls[3].p.content
    /\ Calls[1].p.topic_key # Calls[2].p.topic_key
    /\ Calls[1].at < Calls[3].at
    /\ \E id \in DOMAIN observations : observations[id].revision_count = 3

\* whitespace-equivalent: the same words between the runs of whitespace
SameWords(a, b) == Fields(a) = Fields(b)

SameDedupeInput(p, q) ==
    /\ p.session_id = q.session_id
    /\ p.type = q.type
    /\ p.title = q.title
    /\ normalizeScope(p.scope) = normalizeScope(q.scope)
    /\ p.project = q.project

SamePersistedWords(a, b) == SameWords(Persisted(a), Persisted(b))

\* every write so far is a successful AddObservation, all with the same
\* session, type, title, scope and project, inside the window of the first;
\* the contents compared as given, or as persisted
DuplicateRun(persisted) ==
    /\ hist.pure
    /\ NCalls >= 1
    /\ \A i \in 1..NCalls :
          /\ SameDedupeInput(Calls[i].p, Calls[1].p)
          /\ IF persisted
             THEN SamePersistedWords(Calls[i].p.content, Calls[1].p.content)
             ELSE SameWords(Calls[i].p.content, Calls[1].p.content)
          /\ Calls[i].at <= Calls[1].at + DedupeWindow

OneRowCountingDuplicates ==
    /\ Cardinality(DOMAIN observations) = 1
    /\ \A i \in 1..NCalls : Calls[i].id \in DOMAIN observations
    /\ \A id \in DOMAIN observations : observations[id].duplicate_count = NCalls

C9_AsClaimed ==
    hist.pure =>
        \A i \in 1..NCalls : \A j \in 1..NCalls :
            (/\ TopicTriple(Calls[i].p)[1] # <<>>
             /\ TopicTriple(Calls[j].p)[1] # <<>>
             /\ TopicTriple(Calls[i].p) # TopicTriple(Calls[j].p))
                => /\ Calls[i].id # Calls[j].id
                   /\ Calls[i].id \in RowsOfTriple(TopicTriple(Calls[i].p))
                   /\ Calls[j].id \in RowsOfTriple(TopicTriple(Calls[j].p))

\* C3 as stated: in every reachable state at most one observation with
\* deleted_at NULL exists for each (topic_key, project, scope) with a
\* non-null topic_key.
C3_AsClaimed ==
    \A a \in Live(observations) : \A b \in Live(observations) :
        (/\ observations[a].topic_key # Nil
         /\ observations[a].topic_key = observations[b].topic_key
         /\ derefString(observations[a].project, "") =
                derefString(observations[b].project, "")
         /\ observations[a].scope = observations[b].scope)
            => a = b

SearchOptionsInUse ==
    { NoOptions, [NoOptions EXCEPT !.limit = 1],
      [NoOptions EXCEPT !.project = "engram", !.scope = Personal],
      [NoOptions EXCEPT !.type = "decision"] }

Limits == {0, 1, 2}

SeqIds(q) == {q[i] : i \in 1..Len(q)}

Deleted(tbl) == (DOMAIN tbl) \ Live(tbl)

\* C4: an observation whose deleted_at is set is returned by none of Search,
\* RecentObservations, GetObservation and the before/after lists of
\* Timeline, and Stats.TotalObservations does not count it.
C4_SoftDeletedIsHidden ==
    /\ \A id \in Deleted(observations) :
          /\ GetObservation(observations, id) = Nil
          /\ \A q \in Queries : \A opts \in SearchOptionsInUse :
                \A r \in Search(DB, q, opts) : id \notin r.ids
          /\ \A project \in {"", "engram"} : \A scope \in {<<>>, Personal} :
                \A limit \in Limits :
                   \A R \in RecentObservations(DB, project, scope, limit) : id \notin R
          /\ \A f \in DOMAIN observations : \A b \in Limits : \A a \in Limits :
                /\ id \notin SeqIds(Timeline(DB, f, b, a).before)
                /\ id \notin SeqIds(Timeline(DB, f, b, a).after)
    /\ Stats(DB).total_observations + Cardinality(Deleted(observations))
          = Cardinality(DOMAIN observations)

\* a soft-deleted observation that the index still matches, next to a live
\* observation of the same session
C4_Witness ==
    \E id \in Deleted(observations) : \E f \in Live(observations) :
        /\ observations[f].session_id = observations[id].session_id
        /\ id \in DOMAIN observations_fts
        /\ \E q \in Queries : Matches(observations_fts[id], sanitizeFTS(q))

\* C6: observation ids are positive, each row is stored under its own id,
\* and every newly inserted row gets an id greater than every id assigned
\* before, the ids of hard-deleted rows included.
C6_IdsNeverReused ==
    [][/\ \A id \in DOMAIN observations' :
             id > 0 /\ observations'[id].id = id
       /\ \A id \in (DOMAIN observations') \ (DOMAIN observations) :
             \A old \in assigned : id > old]_vars

\* rows were inserted after a row with a smaller id had been hard-deleted
C6_Witness ==
    /\ last.op = "Import"
    /\ ~last.err
    /\ \E gone \in assigned \ DOMAIN observations :
          \E id \in DOMAIN observations :
             id > gone /\ (id - 1) \in assigned \ DOMAIN observations

\* C7 as stated: when a writing call has returned, the rowids in
\* observations_fts are exactly the ids of the observations with
\* deleted_at NULL.
C7_AsClaimed == DOMAIN observations_fts = Live(observations)

SameBut(rowA, rowB) == [rowA EXCEPT !.id = 0] = [rowB EXCEPT !.id = 0]

\* C10 as stated: Export of the store followed by Import into an empty
\* store succeeds, gives the same number of sessions, observations and
\* prompts, and every imported row equals its original in every field but id.
C10_AsClaimed ==
    LET data == Export(DB)
        r == ImportInto(EmptyDB, data)
        oids == SortedIds(DOMAIN observations)
        pids == SortedIds(DOMAIN user_prompts)
    IN /\ ~data.err
       /\ ~r.err
       /\ r.db.sessions = sessions
       /\ DOMAIN r.db.observations = 1..Len(oids)
       /\ \A i \in 1..Len(oids) : SameBut(r.db.observations[i], observations[oids[i]])
       /\ DOMAIN r.db.user_prompts = 1..Len(pids)
       /\ \A i \in 1..Len(pids) : SameBut(r.db.user_prompts[i], user_prompts[pids[i]])

\* the round trip whenever Export itself succeeds
RoundTripWhenExported ==
    Export(DB).err \/ C10_AsClaimed

SecretLetters == {"s", "k"}

NoSecret(text) == \A i \in 1..Len(text) : text[i] \notin SecretLetters

HasRegion(text) ==
    \E i \in 1..Len(text) : MatchAt(text, i, OpenTag) /\ FirstClose(text, i) # 0

\* the texts X of the regions <private>X</private> of a text, left to right
RECURSIVE RegionsFrom(_, _)
RegionsFrom(text, i) ==
    IF i > Len(text) THEN {}
    ELSE IF MatchAt(text, i, OpenTag) /\ FirstClose(text, i) # 0
         THEN {SubSeq(text, i + Len(OpenTag), FirstClose(text, i) - 1)}
                 \cup RegionsFrom(text, FirstClose(text, i) + Len(CloseTag))
         ELSE RegionsFrom(text, i + 1)

\* what the last call was given and what it stored under it:
\* <<input, stored, length-capped>>
Written ==
    IF last.err THEN {}
    ELSE IF last.op = "AddObservation" /\ last.path # "dedupe"
    THEN { <<last.p.title, observations[last.id].title, FALSE>>,
           <<last.p.content, observations[last.id].content, TRUE>> }
    ELSE IF last.op = "UpdateObservation"
    THEN (IF last.p.title = Nil THEN {}
          ELSE {<<last.p.title[1], observations[last.id].title, FALSE>>})
         \cup (IF last.p.content = Nil THEN {}
               ELSE {<<last.p.content[1], observations[last.id].content, TRUE>>})
    ELSE IF last.op = "AddPrompt"
    THEN { <<last.p.content, user_prompts[last.id].content, TRUE>> }
    ELSE {}

CutAtCap(stored) ==
    /\ Len(stored) = MaxObservationLength + Len(TruncatedSuffix)
    /\ HasSuffix(stored, TruncatedSuffix)

LiveIn(sid) ==
    {id \in Live(observations) : observations[id].session_id = sid}

Rows == Cardinality(DOMAIN observations) + 1

\* every read path but Export shows an observation iff its deleted_at is NULL
ReadPathsShowLive ==
    /\ \A id \in DOMAIN observations :
          LET o == observations[id]
              live == o.deleted_at = Nil
          IN /\ (GetObservation(observations, id) # Nil) <=> live
             /\ \A R \in RecentObservations(DB, "", <<>>, Rows) : id \in R <=> live
             /\ \A R \in AllObservations(DB, "", <<>>, Rows) : id \in R <=> live
             /\ \A R \in SessionObservations(DB, o.session_id, Rows) : id \in R <=> live
             /\ Timeline(DB, id, Rows, Rows).err <=> ~live
             /\ \A f \in LiveIn(o.session_id) \ {id} :
                   LET t == Timeline(DB, f, Rows, Rows)
                   IN id \in SeqIds(t.before) \cup SeqIds(t.after) <=> live
             /\ \A q \in Queries : \A r \in Search(DB, q, NoOptions) :
                   id \in r.ids => live
             /\ live => \A r \in Search(DB, Spell[o.type], NoOptions) : id \in r.ids
             /\ \A c \in FormatContext(DB, "", <<>>) :
                   /\ id \in c.observations => live
                   /\ (live /\ ~c.err) => id \in c.observations
    /\ \A counts \in RecentSessions(DB, "", Rows) :
          \A sid \in DOMAIN counts : counts[sid] = Cardinality(LiveIn(sid))
    /\ Stats(DB).total_observations = Cardinality(Live(observations))

ExportedIds == {Export(DB).observations[i].id : i \in 1..Len(Export(DB).observations)}

ManifestIds == {manifest[i].id : i \in 1..Len(manifest)}

\* the content hashes of a table's observations, in id order
HashesOf(tbl) ==
    [i \in 1..Cardinality(DOMAIN tbl) |-> tbl[SortedIds(DOMAIN tbl)[i]].normalized_hash]

\* a sync import that succeeds applies the manifest chunks that were not in
\* sync_chunks, each once, and records them
ImportAppliesTheUnrecorded ==
    (steps' # steps /\ last'.op = "SyncImport" /\ ~last'.err) =>
        /\ SeqIds(last'.applied) = ManifestIds \ sync_chunks
        /\ Len(last'.applied) = Cardinality(ManifestIds \ sync_chunks)
        /\ last'.chunks_imported = Len(last'.applied)
        /\ sync_chunks' = sync_chunks \cup ManifestIds

\* no sync import applies a chunk that sync_chunks already holds, and no
\* step removes a chunk id from sync_chunks
AppliedAtMostOnce ==
    /\ sync_chunks \subseteq sync_chunks'
    /\ (steps' # steps /\ last'.op = "SyncImport") =>
           /\ SeqIds(last'.applied) \cap sync_chunks = {}
           /\ SeqIds(last'.applied) \subseteq sync_chunks'

\* a sync import right after a sync import applies nothing and writes nothing
RepeatedImportIsNoOp ==
    (steps' # steps /\ last.op = "SyncImport" /\ last'.op = "SyncImport") =>
        /\ last'.chunks_imported = 0
        /\ last'.applied = <<>>
        /\ UNCHANGED <<dbVars, syncVars>>

\* the first chunk of a checkout, written for all projects, imported into an
\* empty database gives the observations of the source, hash by hash
EmptyCheckoutEqualsSource ==
    (last.op = "SyncExport" /\ ~last.err /\ ~last.is_empty /\ last.project = ""
        /\ Len(manifest) = 1) =>
        LET r == SyncImportInto(EmptyDB, {}, manifest, chunkFiles)
        IN /\ ~r.err
           /\ r.chunks_imported = 1
           /\ HashesOf(r.db.observations) = HashesOf(observations)

NewRowsFor(project) ==
    LET since == LastChunkTime(manifest)
        sids == {id \in DOMAIN sessions :
                    project = "" \/ sessions[id].project = project}
    IN [sessions |-> {id \in sids : sessions[id].started_at > since},
        observations |-> {o \in DOMAIN observations :
                             /\ observations[o].session_id \in sids
                             /\ observations[o].created_at > since},
        prompts |-> {q \in DOMAIN user_prompts :
                        /\ user_prompts[q].session_id \in sids
                        /\ user_prompts[q].created_at > since}]

HasNewRows(project) ==
    LET n == NewRowsFor(project)
    IN n.sessions # {} \/ n.observations # {} \/ n.prompts # {}

IsPrefix(a, b) == Len(a) <= Len(b) /\ \A i \in 1..Len(a) : b[i] = a[i]

\* a sync that succeeds writes one chunk when there are new rows, holding as
\* many records as there are new rows, under the id its content hashes to
ExportWritesOneChunk ==
    (steps' # steps /\ last'.op = "SyncExport" /\ ~last'.err
        /\ HasNewRows(last'.project)) =>
        LET e == manifest'[Len(manifest')]
            n == NewRowsFor(last'.project)
        IN /\ ~last'.is_empty
           /\ Len(manifest') = Len(manifest) + 1
           /\ DOMAIN chunkFiles' = (DOMAIN chunkFiles) \cup {e.id}
           /\ e.id \notin DOMAIN chunkFiles
           /\ e.id = ChunkId(chunkFiles'[e.id])
           /\ e.id \in sync_chunks'
           /\ Len(chunkFiles'[e.id].sessions) = Cardinality(n.sessions)
           /\ Len(chunkFiles'[e.id].observations) = Cardinality(n.observations)
           /\ Len(chunkFiles'[e.id].prompts) = Cardinality(n.prompts)

\* a sync with no new rows, and a sync run again with nothing written to the
\* database in between, write nothing and report nothing new
ExportRerunWritesNothing ==
    /\ (steps' # steps /\ last'.op = "SyncExport" /\ ~last'.err
           /\ ~HasNewRows(last'.project)) =>
           last'.is_empty /\ UNCHANGED syncVars
    /\ (steps' # steps /\ last.op = "SyncExport" /\ ~last.err
           /\ last'.op = "SyncExport" /\ last'.project = last.project) =>
           last'.is_empty /\ UNCHANGED syncVars

\* a sync leaves every chunk file and every manifest entry as it was
ExportKeepsChunks ==
    (steps' # steps /\ last'.op = "SyncExport") =>
        /\ IsPrefix(manifest, manifest')
        /\ \A id \in DOMAIN chunkFiles :
              id \in DOMAIN chunkFiles' /\ chunkFiles'[id] = chunkFiles[id]

\* C12: each sync that finds new records writes exactly one new chunk whose
\* id is the hash of its content; a sync re-run on an unchanged snapshot
\* writes no chunk and reports nothing new; no sync modifies or removes an
\* existing chunk file or an existing manifest entry.
C12_ExportAppendOnly ==
    [][ExportWritesOneChunk /\ ExportRerunWritesNothing /\ ExportKeepsChunks]_vars

\* a second chunk was written next to an older one, and it holds an
\* observation
C12_Witness ==
    /\ last.op = "SyncExport"
    /\ ~last.err
    /\ ~last.is_empty
    /\ Len(manifest) >= 2
    /\ manifest[Len(manifest)].observations >= 1
    /\ Cardinality(DOMAIN chunkFiles) = Len(manifest)

\* ------------------------------------------------------------------- C13
\* the payload holds an observation or a prompt whose session is neither in
\* the payload nor in the store
Dangling(data) ==
    LET known == (DOMAIN sessions) \cup {data.sessions[i].id : i \in 1..Len(data.sessions)}
    IN \/ \E i \in 1..Len(data.observations) : data.observations[i].session_id \notin known
       \/ \E i \in 1..Len(data.prompts) : data.prompts[i].session_id \notin known

ImportStepAllOrNothing ==
    (steps' # steps /\ last'.op = "Import") =>
        /\ last'.err <=> Dangling(last'.data)
        /\ last'.err => UNCHANGED dbVars
        /\ ~last'.err =>
              /\ \A id \in DOMAIN sessions :
                    id \in DOMAIN sessions' /\ sessions'[id] = sessions[id]
              /\ DOMAIN sessions' =
                    (DOMAIN sessions) \cup
                    {last'.data.sessions[i].id : i \in 1..Len(last'.data.sessions)}
              /\ Cardinality(DOMAIN observations') =
                    Cardinality(DOMAIN observations) + Len(last'.data.observations)
              /\ Cardinality(DOMAIN user_prompts') =
                    Cardinality(DOMAIN user_prompts) + Len(last'.data.prompts)

\* C13: if the insert of any session, observation or prompt of the payload
\* fails, Import returns an error and no row and no FTS entry from that call
\* is persisted; sessions whose id already exists are skipped without error
\* and without being modified.
C13_ImportAllOrNothing == [][ImportStepAllOrNothing]_vars

\* an Import failed on its second observation, after the session and the
\* first observation had been inserted, and the store shows neither
C13_Witness ==
    /\ last.op = "Import"
    /\ last.err
    /\ last.data = HalfOrphanData
    /\ "s9" \notin DOMAIN sessions
    /\ sessions # <<>>

\* ------------------------------------------------------------------- C14
\* C14: redaction is applied to every title and content that enters the
\* store through Import: after importing a payload whose observation title or
\* content or prompt content contains a <private>...</private> region, the
\* stored text has [REDACTED] in place of that region.
C14_AsClaimed ==
    (last.op = "Import" /\ ~last.err) =>
        /\ \A id \in DOMAIN observations :
              /\ ~HasRegion(observations[id].title)
              /\ ~HasRegion(observations[id].content)
              /\ NoSecret(observations[id].title)
              /\ NoSecret(observations[id].content)
        /\ \A id \in DOMAIN user_prompts :
              /\ ~HasRegion(user_prompts[id].content)
              /\ NoSecret(user_prompts[id].content)

\* ------------------------------------------------------------------- C15
LegacyQuery == <<"l", "e", "g", "a", "c", "y">>

\* what New left of the legacy table
LegacyOpened ==
    last.op = "New" =>
        /\ ~last.err
        /\ Cardinality(DOMAIN observations) = Len(last.legacy)
        /\ \A id \in DOMAIN observations : id > 0
        /\ \A i \in 1..Len(last.legacy) :
              last.legacy[i] # Nil => last.legacy[i][1] \in DOMAIN observations
        /\ \A r \in Search(DB, LegacyQuery, [NoOptions EXCEPT !.project = "engram"]) :
              ~r.err /\ (observations # <<>> => r.ids # {})

\* an AddObservation that inserts a row gives it an id above every id of
\* the table
InsertsAboveExisting ==
    (steps' # steps /\ last'.op = "AddObservation" /\ ~last'.err
        /\ last'.path = "insert") =>
        \A id \in DOMAIN observations : last'.id > id

\* C15: opening a database whose observations.id column is not a declared
\* primary key succeeds for any legacy contents (NULL ids, duplicated ids,
\* any integer ids, in any row order); afterwards the table holds the same
\* number of rows, every row has a distinct id > 0, one row of each
\* duplicate-id family keeps the original id, Search finds the legacy rows,
\* and later inserts receive ids greater than every existing id.
C15_AsClaimed == []LegacyOpened /\ [][InsertsAboveExisting]_vars

\* ------------------------------------------------------------------- C16
\* C16: for any query string of printable characters (the empty string, FTS
\* operators and quote characters included), sanitizeFTS returns a valid
\* FTS5 MATCH expression, so Search returns a result list, empty when no
\* term matches, and never an error caused by the query text.
C16_AsClaimed ==
    \A q \in PrintableQueries :
        /\ ~MatchSyntaxError(sanitizeFTS(q))
        /\ \A r \in Search(DB, q, NoOptions) : ~r.err

\* ------------------------------------------------------------------- C17
\* the suffix spelled with the character U+2026 (bytes E2 80 A6) in place of
\* the three full stops
EllipsisSuffix ==
    <<"E2", "80", "A6", " ", "[", "t", "r", "u", "n", "c", "a", "t", "e", "d", "]">>

\* C17 as stated: in AddObservation, UpdateObservation and AddPrompt, content
\* strictly longer than the cap is stored as its first cap bytes followed by
\* the suffix with U+2026, and content of at most cap bytes is stored without
\* any truncation suffix.
C17_AsClaimed ==
    \A w \in Written :
        w[3] =>
            IF Len(w[1]) > MaxObservationLength
            THEN w[2] = SubSeq(w[1], 1, MaxObservationLength) \o EllipsisSuffix
            ELSE /\ ~HasSuffix(w[2], EllipsisSuffix)
                 /\ ~HasSuffix(w[2], TruncatedSuffix)

\* C17, amended: the cap applies to the content after redaction and
\* trimming; content then strictly longer than the cap is stored as its
\* first cap bytes followed by the suffix "... [truncated]" (three full
\* stops), and content then of at most cap bytes is stored as it is, without
\* a truncation suffix.
C17_TruncationAfterRedaction ==
    \A w \in Written :
        w[3] =>
            LET r == stripPrivateTags(w[1])
            IN IF Len(r) > MaxObservationLength
               THEN /\ w[2] = SubSeq(r, 1, MaxObservationLength) \o TruncatedSuffix
                    /\ CutAtCap(w[2])
               ELSE /\ w[2] = r
                    /\ ~HasSuffix(w[2], TruncatedSuffix)

\* AddPrompt was given a content longer than the cap and stored it cut, and
\* an observation holds a content that was longer than the cap before
\* redaction only and is stored uncut
C17_Witness ==
    /\ last.op = "AddPrompt"
    /\ ~last.err
    /\ Len(stripPrivateTags(last.p.content)) > MaxObservationLength
    /\ CutAtCap(user_prompts[last.id].content)
    /\ \E id \in DOMAIN observations :
          /\ observations[id].content = Redacted
          /\ ~HasSuffix(observations[id].content, TruncatedSuffix)

\* ------------------------------------------------------------------- C18
\* a key in the form the store is to hold: not empty, in lower case, without
\* whitespace, of at most 120 bytes, and equal to its own normalization
NormalTopicKey(k) ==
    /\ k # <<>>
    /\ Len(k) <= TopicKeyMaxLen
    /\ \A i \in 1..Len(k) : ~IsSpace(k[i]) /\ k[i] \notin DOMAIN UpperLetters
    /\ normalizeTopicKey(k) = k

\* C18: normalize_topic_key is idempotent for every input string, so every
\* topic_key stored by AddObservation, UpdateObservation or Import is either
\* NULL or a non-empty, lowercase, whitespace-free string of at most 120
\* bytes that equals its own normalization.
C18_AsClaimed ==
    /\ \A k \in TopicKeyInputs :
          normalizeTopicKey(normalizeTopicKey(k)) = normalizeTopicKey(k)
    /\ \A id \in DOMAIN observations :
          observations[id].topic_key # Nil =>
              NormalTopicKey(observations[id].topic_key[1])

\* ------------------------------------------------------------------- C19
SegmentChars == LowerLetters \cup Digits \cup {"-"}

\* a non-empty text over [a-z0-9-]
IsSegment(s) == s # <<>> /\ \A i \in 1..Len(s) : s[i] \in SegmentChars

\* C19: for any type, title and content, SuggestTopicKey returns a key of the
\* form family/segment in which family and segment are each non-empty and
\* match [a-z0-9-]+, and the whole key is at most 120 bytes long; equal
\* inputs give equal outputs.
C19_AsClaimed ==
    last.op = "SuggestTopicKey" =>
        /\ \E i \in 1..Len(last.key) :
              /\ last.key[i] = "/"
              /\ IsSegment(SubSeq(last.key, 1, i - 1))
              /\ IsSegment(SubSeq(last.key, i + 1, Len(last.key)))
        /\ Len(last.key) <= TopicKeyMaxLen
        /\ last.key = SuggestTopicKey(last.typ, last.title, last.content)

\* ------------------------------------------------------------------- C20
FilterProjects == {"engram"}

FilterScopes == {Personal, ProjectScope, ScopePersonalRaw, ScopeTeam}

\* the observation is of project P and of the scope that S normalizes to
InFilter(id, P, S) ==
    /\ observations[id].project = <<P>>
    /\ observations[id].scope = normalizeScope(S)

\* C20: with a project filter P and a scope filter S, Search,
\* RecentObservations and the observations listed by FormatContext contain
\* only observations whose project equals P and whose stored scope equals
\* normalize_scope(S); an observation saved with scope personal never
\* appears in a result filtered to scope project, and vice versa.
C20_FiltersByProjectAndScope ==
    \A P \in FilterProjects, S \in FilterScopes :
        /\ \A q \in Queries :
              \A r \in Search(DB, q, [NoOptions EXCEPT !.project = P, !.scope = S]) :
                 \A id \in r.ids : InFilter(id, P, S)
        /\ \A r \in RecentObservations(DB, P, S, 0) :
              \A id \in r : InFilter(id, P, S)
        /\ \A c \in FormatContext(DB, P, S) :
              \A id \in c.observations : InFilter(id, P, S)

\* a personal and a project observation of one project: each filter lists
\* the one and not the other
C20_Witness ==
    \E a \in Live(observations), b \in Live(observations) :
        /\ observations[a].project = <<"engram">>
        /\ observations[b].project = <<"engram">>
        /\ observations[a].scope = Personal
        /\ observations[b].scope = ProjectScope
        /\ \E r \in RecentObservations(DB, "engram", ScopePersonalRaw, 0) :
              a \in r /\ b \notin r
        /\ \E r \in Search(DB, <<"a">>, [NoOptions EXCEPT !.project = "engram",
                                                          !.scope = ScopeTeam]) :
              b \in r.ids /\ a \notin r.ids

\* ------------------------------------------------------------------- C21
\* the call just made lacks a required field
LacksRequiredField ==
    /\ steps' # steps
    /\ \/ last'.op = "UpdateObservation" /\ last'.p = NoUpdate
       \/ last'.op = "AddPrompt" /\ last'.p.content = <<>>
       \/ last'.op = "AddObservation" /\ last'.p.session_id = ""

\* C21: a request with a missing required field (UpdateObservation in which
\* every optional field is null, AddPrompt with empty content, AddObservation
\* with an empty session_id) returns an error and leaves every row unchanged.
C21_AsClaimed ==
    [][LacksRequiredField => (last'.err /\ UNCHANGED dbVars)]_vars

\* ------------------------------------------------------------------- C22
NonPositive == {0 - 1, 0}

AtMost(n, k) == IF n < k THEN n ELSE k

SessionOf(f) ==
    {id \in Live(observations) : observations[id].session_id = observations[f].session_id}

\* C22 as stated: Timeline called with before <= 0 or after <= 0, and Search
\* called with a non-positive limit, return a validation error instead of a
\* result.
C22_AsClaimed ==
    /\ \A f \in Live(observations) : \A b \in NonPositive \cup {2}, a \in NonPositive \cup {2} :
          (b <= 0 \/ a <= 0) => Timeline(DB, f, b, a).err
    /\ \A q \in {ContentCD} : \A l \in NonPositive :
          \A r \in Search(DB, q, [NoOptions EXCEPT !.limit = l]) : r.err

\* C22, amended: Timeline called with before <= 0 or after <= 0 uses 5 in
\* place of that argument, and Search called with a non-positive limit uses
\* 10; each returns the result of the call with that value, not a validation
\* error.
C22_NonPositiveUsesDefault ==
    /\ \A f \in Live(observations) : \A b \in NonPositive, a \in NonPositive \cup {2} :
          LET r == Timeline(DB, f, b, a)
              t == Timeline(DB, f, a, b)
          IN /\ ~r.err /\ ~t.err
             /\ r = Timeline(DB, f, 5, IF a <= 0 THEN 5 ELSE a)
             /\ t = Timeline(DB, f, IF a <= 0 THEN 5 ELSE a, 5)
             /\ Len(r.before) = AtMost(Cardinality({id \in SessionOf(f) : id < f}), 5)
             /\ Len(t.after) = AtMost(Cardinality({id \in SessionOf(f) : id > f}), 5)
    /\ \A q \in {ContentCD} : \A l \in NonPositive :
          LET rs == Search(DB, q, [NoOptions EXCEPT !.limit = l])
          IN /\ rs = Search(DB, q, [NoOptions EXCEPT !.limit = 10])
             /\ \A r \in rs :
                   /\ ~r.err
                   /\ Cardinality(r.ids) =
                         AtMost(Cardinality(SearchCandidates(DB, q, NoOptions)), 10)

\* more than 5 observations on a side of the focus and more than 10 matches:
\* the calls with 0 return 5 and 10 of them
C22_Witness ==
    /\ \E f \in Live(observations) :
          /\ Cardinality({id \in SessionOf(f) : id < f}) > 5
          /\ Len(Timeline(DB, f, 0, 0).before) = 5
    /\ \E f \in Live(observations) :
          /\ Cardinality({id \in SessionOf(f) : id > f}) > 5
          /\ Len(Timeline(DB, f, 0 - 1, 0 - 1).after) = 5
    /\ Cardinality(SearchCandidates(DB, ContentCD, NoOptions)) > 10
    /\ \E r \in Search(DB, ContentCD, [NoOptions EXCEPT !.limit = 0]) :
          ~r.err /\ Cardinality(r.ids) = 10

\* ------------------------------------------------------------------- C23
Ascending(q) == \A i \in 1..(Len(q) - 1) : q[i] < q[i + 1]

TimelineWindows == {1, 2, 5}

\* q lists, in ascending order, the n elements of S nearest to the focus:
\* the largest when S lies below it, the smallest when S lies above it
NearestOf(q, S, n, below) ==
    /\ Ascending(q)
    /\ SeqIds(q) \subseteq S
    /\ Len(q) = AtMost(Cardinality(S), n)
    /\ \A x \in S \ SeqIds(q) : \A y \in SeqIds(q) : IF below THEN x < y ELSE y < x

\* C23: for a non-deleted focus observation f, Timeline(f, b, a) returns as
\* before the (up to b) non-deleted observations of f's session with the
\* largest ids below f.id, in ascending id order, and as after the (up to a)
\* non-deleted observations of that session with the smallest ids above f.id,
\* in ascending id order; before is empty when f is the first observation of
\* its session, after is empty when it is the last, and total_in_range is the
\* number of non-deleted observations in the session.
C23_TimelineNeighbours ==
    \A f \in Live(observations) : \A b \in TimelineWindows, a \in TimelineWindows :
        LET r == Timeline(DB, f, b, a)
            older == {id \in SessionOf(f) : id < f}
            newer == {id \in SessionOf(f) : id > f}
        IN /\ ~r.err
           /\ NearestOf(r.before, older, b, TRUE)
           /\ NearestOf(r.after, newer, a, FALSE)
           /\ older = {} => r.before = <<>>
           /\ newer = {} => r.after = <<>>
           /\ r.total_in_range = Cardinality(SessionOf(f))

\* a focus with, on each side, more neighbours than asked for, a deleted
\* observation of its session and an observation of another session inside
\* the window; and a focus that is the first and one that is the last of
\* its session
C23_Witness ==
    /\ \E f \in Live(observations) :
          LET r == Timeline(DB, f, 2, 2)
              mine == {id \in DOMAIN observations :
                          observations[id].session_id = observations[f].session_id}
          IN /\ Len(r.before) = 2 /\ Len(r.after) = 2
             /\ Cardinality({id \in SessionOf(f) : id < f}) > 2
             /\ Cardinality({id \in SessionOf(f) : id > f}) > 2
             /\ \E d \in mine \ SessionOf(f) : r.before[1] < d /\ d < r.after[2]
             /\ \E o \in Live(observations) \ mine : r.before[1] < o /\ o < f
             /\ \E o \in Live(observations) \ mine : f < o /\ o < r.after[2]
    /\ \E f \in Live(observations) :
          /\ Timeline(DB, f, 5, 5).before = <<>>
          /\ Timeline(DB, f, 5, 5).after # <<>>
    /\ \E f \in Live(observations) :
          /\ Timeline(DB, f, 5, 5).after = <<>>
          /\ Timeline(DB, f, 5, 5).before # <<>>

\* ------------------------------------------------------------------- C24
\* the step just taken is the call op on the observation id
CalledOn(op, id) == steps' # steps /\ last'.op = op /\ last'.id = id

\* the call just made is an AddObservation whose topic key, or whose dedupe
\* key, is that of the row
AddedWithKeyOf(row) ==
    /\ steps' # steps
    /\ last'.op = "AddObservation"
    /\ derefString(row.project, "") = last'.p.project
    /\ row.scope = normalizeScope(last'.p.scope)
    /\ \/ row.topic_key # Nil /\ row.topic_key = <<normalizeTopicKey(last'.p.topic_key)>>
       \/ /\ last'.p.topic_key = <<>>
          /\ row.normalized_hash = <<hashNormalized(Persisted(last'.p.content))>>
          /\ row.type = last'.p.type
          /\ row.title = stripPrivateTags(last'.p.title)
          /\ row.created_at >= now - DedupeWindow

FrozenOnceDeleted ==
    \A id \in Deleted(observations) :
        /\ ~(CalledOn("DeleteObservation", id) /\ last'.hard) =>
              id \in DOMAIN observations' /\ observations'[id] = observations[id]
        /\ CalledOn("DeleteObservation", id) => ~last'.err
        /\ CalledOn("UpdateObservation", id) => last'.err
        /\ ~CalledOn("AddObservation", id)
        /\ (AddedWithKeyOf(observations[id]) /\ ~last'.err) =>
              \/ last'.id \in Live(observations)
              \/ /\ last'.path = "insert"
                 /\ last'.id \notin DOMAIN observations
                 /\ last'.id \notin assigned
                 /\ last'.id \in Live(observations')

\* C24: once an observation is soft-deleted, no operation other than a hard
\* delete changes any of its columns: a repeated soft delete succeeds and
\* keeps deleted_at and updated_at, UpdateObservation on it returns
\* not-found, and AddObservation with its topic key or its dedupe key inserts
\* a new row with a new id instead of reviving or modifying it.
C24_DeletedRowsAreFrozen == [][FrozenOnceDeleted]_vars

\* the row d was soft-deleted at an earlier time, and the last call, an
\* AddObservation with the dedupe key or the topic key of d, has inserted a
\* row of a larger id
C24_Witness ==
    /\ last.op = "AddObservation" /\ ~last.err /\ last.path = "insert"
    /\ \E d \in Deleted(observations) :
          /\ d < last.id
          /\ observations[d].deleted_at = <<observations[d].updated_at>>
          /\ observations[d].updated_at < now
          /\ observations[d].revision_count = 1
          /\ observations[d].duplicate_count = 1
          /\ observations[d].title = observations[last.id].title
          /\ observations[d].normalized_hash = observations[last.id].normalized_hash
          /\ observations[d].topic_key = observations[last.id].topic_key
          /\ observations[d].project = observations[last.id].project
          /\ observations[d].scope = observations[last.id].scope

\* ------------------------------------------------------------------- C25
NothingToDo ==
    \A id \in {"s1", "s3", ""} :
        /\ (CalledOn("CreateSession", id) /\ id \in DOMAIN sessions) =>
              ~last'.err /\ sessions' = sessions /\ UNCHANGED dbVars
        /\ (CalledOn("EndSession", id) /\ id \notin DOMAIN sessions) =>
              ~last'.err /\ sessions' = sessions /\ UNCHANGED dbVars

\* C25: CreateSession with an id that already exists returns success and
\* leaves that session's project, directory, started_at, ended_at and
\* summary unchanged, and EndSession with an unknown id returns success and
\* creates or modifies no session row.
C25_SessionNoOps == [][NothingToDo]_vars

\* the last call was a CreateSession for a session that was started earlier
\* with another project and directory and has since ended
C25_Witness ==
    /\ last.op = "CreateSession" /\ ~last.err
    /\ last.id \in DOMAIN sessions
    /\ sessions[last.id].project # last.project
    /\ sessions[last.id].directory # last.directory
    /\ sessions[last.id].started_at < now
    /\ sessions[last.id].ended_at # Nil
    /\ sessions[last.id].summary # Nil

\* ------------------------------------------------------------------- C26
\* the step just taken is an AddObservation, made through via, that names a
\* session without a row
AddedToMissingSession(via) ==
    /\ steps' # steps
    /\ last'.op = "AddObservation"
    /\ last'.via = via
    /\ \/ last'.p.session_id \notin DOMAIN sessions
       \/ via = "handleSave" /\ last'.p.session_id = "manual-save"

SessionMadeOnDemand ==
    /\ ~last'.err
    /\ last'.p.session_id \in DOMAIN sessions'
    /\ last'.id \in Live(observations')
    /\ observations'[last'.id].session_id \in DOMAIN sessions'
    /\ last'.path = "insert" =>
          /\ last'.id \notin DOMAIN observations
          /\ observations'[last'.id].session_id = last'.p.session_id

\* C26 as stated: AddObservation called with a session_id for which no
\* session row exists creates the session on demand and then inserts the
\* observation, so the call succeeds and the new observation's session
\* exists afterwards.
C26_AsClaimed ==
    [][\A via \in {"store", "handleSave"} :
          AddedToMissingSession(via) => SessionMadeOnDemand]_vars

\* C26, amended: AddObservation called through a save front-end with a
\* session_id for which no session row exists has the session created on
\* demand by that front-end before the insert, so the call succeeds and the
\* new observation's session exists afterwards; Store.AddObservation itself
\* creates no session, and when it has a row to insert it fails on the
\* foreign key and writes nothing.
C26_FrontEndCreatesSession ==
    [][/\ AddedToMissingSession("handleSave") => SessionMadeOnDemand
       /\ AddedToMissingSession("store") =>
             /\ sessions' = sessions
             /\ last'.path \notin {"upsert", "dedupe"} =>
                   last'.err /\ UNCHANGED dbVars]_vars

\* the last save went through the handler, named a session that had no row,
\* and inserted an observation into the session made for it
C26_Witness ==
    /\ last.op = "AddObservation" /\ last.via = "handleSave"
    /\ ~last.err /\ last.path = "insert"
    /\ last.p.session_id \in {"s2", "manual-save"}
    /\ sessions[last.p.session_id].directory = ""
    /\ sessions[last.p.session_id].started_at = observations[last.id].created_at
    /\ observations[last.id].session_id = last.p.session_id

\* ------------------------------------------------------------------- C27
\* the session a has a non-deleted observation made after the session b
\* started and after every observation of b
MoreRecentObservation(a, b) ==
    \E o \in Live(observations) :
        /\ observations[o].session_id = a
        /\ observations[o].created_at > sessions[b].started_at
        /\ \A x \in Live(observations) :
              observations[x].session_id = b =>
                  observations[x].created_at < observations[o].created_at

\* C27: AllSessions and RecentSessions list sessions by most recent
\* activity, newest first: a session that started earlier but has a more
\* recent observation than another session is listed before that other
\* session. Stated on the listings of limit 1, which hold the first session
\* listed: the other session is not the one listed first.
C27_AsClaimed ==
    \A a \in DOMAIN sessions, b \in DOMAIN sessions :
        (sessions[a].started_at < sessions[b].started_at /\ MoreRecentObservation(a, b)) =>
            \A r \in RecentSessions(DB, "", 1) \cup AllSessions(DB, "", 1) :
                b \notin DOMAIN r

\* ------------------------------------------------------------------- C28
\* C28: RecentPrompts, SearchPrompts and Export succeed when a stored prompt
\* has a NULL project, as stored by AddPrompt with an empty project, and
\* report that prompt with an empty-string project.
C28_AsClaimed ==
    (\E id \in DOMAIN user_prompts : user_prompts[id].project = Nil) =>
        /\ \A r \in RecentPrompts(DB, "", 0) : ~r.err
        /\ \A q \in Queries \cup {<<"x">>} :
              \A r \in SearchPrompts(DB, q, "", 0) : ~r.err
        /\ ~Export(DB).err

\* ------------------------------------------------------------------- C29
\* two texts with the same words in the same order, case aside
NormalizedEqual(a, b) == Fields(ToLower(a)) = Fields(ToLower(b))

\* a live observation of the project, of scope project, holds the item's
\* normalized content
ItemKnown(item, project) ==
    \E o \in Live(observations) :
        /\ observations[o].project = nullableString(project)
        /\ observations[o].scope = ProjectScope
        /\ NormalizedEqual(observations[o].content, Persisted(item))

PassiveStep == steps' # steps /\ last'.op = "PassiveCapture" /\ ~last'.err

BothDone == \A c \in Callers : InFlight[c].pc = "done" /\ ~InFlight[c].err

\* C30: AddObservation's lookup-then-write is atomic with respect to other
\* AddObservation calls: after two concurrent calls with the same
\* (topic_key, project, scope) exactly one row exists, with revision_count
\* 2; after two concurrent calls with the same dedupe key, made inside the
\* window, exactly one row exists, with duplicate_count 2.
C30_AsClaimed ==
    LET keyed == normalizeTopicKey(InFlight[1].p.topic_key) # <<>>
        inWindow == \A o \in DOMAIN observations :
                        observations[o].created_at >= now - DedupeWindow
    IN (BothDone /\ InFlight[1].p = InFlight[2].p /\ (keyed \/ inWindow)) =>
           /\ Cardinality(DOMAIN observations) = 1
           /\ \A o \in DOMAIN observations :
                 IF keyed THEN observations[o].revision_count = 2
                 ELSE observations[o].duplicate_count = 2

\* ------------------------------------------------------------------- C31
\* both updates have returned without error, one supplied the title only and
\* the other the content only
DisjointUpdatesDone ==
    /\ \A c \in Callers : UpdatesInFlight[c].pc = "done" /\ ~UpdatesInFlight[c].err
    /\ \E c \in Callers, d \in Callers :
          /\ UpdatesInFlight[c].p.title # Nil
          /\ UpdatesInFlight[d].p.content # Nil

\* C31: UpdateObservation changes only the fields supplied in the request:
\* after two concurrent updates of the same observation that supply
\* disjoint fields, both supplied values are in the row and revision_count
\* has grown by exactly 2 (from the 1 of the saved row).
C31_AsClaimed ==
    DisjointUpdatesDone =>
        /\ observations[1].title = ContentCD
        /\ observations[1].content = ContentCD
        /\ observations[1].revision_count = 3

\* ------------------------------------------------------------------- C32
\* the chunk ids whose rows an Import has committed
ChunksApplied == IF hist.pure THEN <<>> ELSE hist.calls

\* C32: inserting a chunk's rows and recording its id are atomic. Whenever
\* no sync import is between its two calls, every chunk whose rows were
\* committed is recorded in sync_chunks, and no chunk's rows were committed
\* a second time.
C32_AsClaimed ==
    last.op # "ImportingChunk" =>
        /\ \A i \in 1..Len(ChunksApplied) : ChunksApplied[i] \in sync_chunks
        /\ \A i \in 1..Len(ChunksApplied), j \in 1..Len(ChunksApplied) :
              ChunksApplied[i] = ChunksApplied[j] => i = j

\* ------------------------------------------------------------------- C33
\* C33: an open that fails during the legacy observations migration leaves
\* the database exactly as it was before the open (same tables, same
\* columns, same rows, same FTS contents), and an open of an already
\* migrated database succeeds and changes nothing.
C33_AsClaimed ==
    last.op = "New" =>
        /\ last.err => last.file = last.before
        /\ last.before.pk => (~last.err /\ last.file = last.before)

\* ------------------------------------------------------------------- C34
\* the live observations whose current indexed columns hold the terms of q
CurrentlyMatching(q) ==
    {o \in Live(observations) : Matches(FtsDoc(observations[o]), sanitizeFTS(q))}

\* C34: a Search issued after a write call has returned observes that write.
\* In every reachable state Search(q) succeeds and returns exactly the
\* non-deleted observations whose current indexed columns hold the terms of
\* q (when they fit the default limit of 10), so terms of a content replaced
\* by a topic upsert or an update no longer match and terms of the new
\* content do.
C34_SearchObservesWrites ==
    \A q \in Queries :
        Cardinality(CurrentlyMatching(q)) <= 10 =>
            \A r \in Search(DB, q, NoOptions) :
                ~r.err /\ r.ids = CurrentlyMatching(q)

\* a topic upsert has replaced the content "a b" of a row by "cd": the row is
\* no longer found by a and is found by cd
C34_Witness ==
    /\ last.op = "AddObservation"
    /\ last.path = "upsert"
    /\ last.p.content = ContentCD
    /\ hist.pure
    /\ hist.calls[1].id = last.id
    /\ hist.calls[1].p.content = ContentAB
    /\ \A r \in Search(DB, <<"a">>, NoOptions) : last.id \notin r.ids
    /\ \A r \in Search(DB, <<"c", "d">>, NoOptions) : last.id \in r.ids

\* ------------------------------------------------------------------- C35
\* C35: a successful UpdateObservation increments revision_count by exactly
\* 1, sets normalized_hash to the hash of the final content, and leaves the
\* row's id, session_id, duplicate_count, last_seen_at, created_at and
\* deleted_at unchanged.
C35_UpdateFrame ==
    [][(steps' # steps /\ last'.op = "UpdateObservation" /\ ~last'.err) =>
          LET old == observations[last'.id]
              new == observations'[last'.id]
          IN /\ DOMAIN observations' = DOMAIN observations
             /\ new.revision_count = old.revision_count + 1
             /\ new.normalized_hash = <<hashNormalized(new.content)>>
             /\ new.id = old.id
             /\ new.session_id = old.session_id
             /\ new.duplicate_count = old.duplicate_count
             /\ new.last_seen_at = old.last_seen_at
             /\ new.created_at = old.created_at
             /\ new.deleted_at = old.deleted_at]_vars

\* an update has replaced the content of a row that had absorbed a
\* duplicate, at a later time than the row was last seen
C35_Witness ==
    /\ last.op = "UpdateObservation"
    /\ ~last.err
    /\ last.p.content = <<ContentCD>>
    /\ observations[last.id].content = ContentCD
    /\ observations[last.id].normalized_hash = <<hashNormalized(ContentCD)>>
    /\ observations[last.id].duplicate_count = 2
    /\ observations[last.id].revision_count = 2
    /\ observations[last.id].last_seen_at # <<now>>
    /\ observations[last.id].updated_at = now

\* ------------------------------------------------------------------- C36
\* the live rows that carry the dedupe key of the call p and were created at
\* most one dedupe window ago
TwinsInWindow(p) ==
    {o \in Live(observations) :
        /\ observations[o].normalized_hash # Nil
        /\ NormalizedEqual(observations[o].normalized_hash[1], Persisted(p.content))
        /\ observations[o].project = nullableString(p.project)
        /\ observations[o].scope = normalizeScope(p.scope)
        /\ observations[o].type = p.type
        /\ observations[o].title = stripPrivateTags(p.title)
        /\ now - observations[o].created_at <= DedupeWindow}

\* C36: an AddObservation without a matching topic row is absorbed as a
\* duplicate exactly when a non-deleted row with the same normalized hash,
\* project, scope, type and title was created within the dedupe window
\* before the call. The window is measured from that row's created_at, which
\* an absorbed duplicate does not change, so an identical insert arriving
\* later than one window after the first creates a new row with
\* duplicate_count 1.
C36_DedupeWindowFromCreation ==
    [][(steps' # steps /\ last'.op = "AddObservation" /\ ~last'.err
          /\ last'.path # "upsert") =>
          LET twins == TwinsInWindow(last'.p)
              id == last'.id
          IN /\ last'.path = "dedupe" <=> twins # {}
             /\ last'.path = "dedupe" =>
                   /\ id \in twins
                   /\ DOMAIN observations' = DOMAIN observations
                   /\ observations'[id].duplicate_count
                          = observations[id].duplicate_count + 1
                   /\ observations'[id].created_at = observations[id].created_at
             /\ last'.path = "insert" =>
                   /\ id \notin DOMAIN observations
                   /\ observations'[id].duplicate_count = 1
                   /\ observations'[id].created_at = now]_vars

\* an identical insert has made a new row: its twin absorbed a duplicate
\* inside the window and was created more than one window ago
C36_Witness ==
    /\ last.op = "AddObservation"
    /\ ~last.err
    /\ last.path = "insert"
    /\ observations[last.id].duplicate_count = 1
    /\ \E o \in Live(observations) :
          /\ o # last.id
          /\ observations[o].normalized_hash = observations[last.id].normalized_hash
          /\ observations[o].project = observations[last.id].project
          /\ observations[o].scope = observations[last.id].scope
          /\ observations[o].type = observations[last.id].type
          /\ observations[o].title = observations[last.id].title
          /\ observations[o].duplicate_count = 2
          /\ now - observations[o].created_at > DedupeWindow
          /\ now - observations[o].updated_at <= DedupeWindow

\* ------------------------------------------------------------------- C37
ExportProjects == {"engram", "other"}

\* the rows of a list of the export that belong to a session of project P
OfProjectSessions(rows, data, P) ==
    {x \in SeqIds(rows) :
        \E s \in SeqIds(data.sessions) : s.id = x.session_id /\ s.project = P}

\* C37: a project-filtered export for project P contains exactly the
\* sessions whose project is P, exactly the observations whose session_id is
\* one of those sessions, whatever the observation's own project field, and
\* exactly the prompts of those sessions, each once, so every exported
\* observation and prompt refers to an exported session.
C37_FilteredExportFollowsSessions ==
    \A P \in ExportProjects :
        LET data == Export(DB)
            f == filterExportByProject(data, P)
        IN ~data.err =>
              /\ SeqIds(f.sessions) = {s \in SeqIds(data.sessions) : s.project = P}
              /\ SeqIds(f.observations) = OfProjectSessions(data.observations, data, P)
              /\ SeqIds(f.prompts) = OfProjectSessions(data.prompts, data, P)
              /\ Len(f.sessions) = Cardinality(SeqIds(f.sessions))
              /\ Len(f.observations) = Cardinality(SeqIds(f.observations))
              /\ Len(f.prompts) = Cardinality(SeqIds(f.prompts))
              /\ \A x \in SeqIds(f.observations) \cup SeqIds(f.prompts) :
                    \E s \in SeqIds(f.sessions) : s.id = x.session_id

\* the export filtered to project other holds an observation whose own
\* project is engram, saved in a session of project other, and leaves out an
\* observation of a session of project engram
C37_Witness ==
    LET data == Export(DB)
        f == filterExportByProject(data, "other")
    IN /\ ~data.err
       /\ \E x \in SeqIds(f.observations) : x.project = <<"engram">>
       /\ \E x \in SeqIds(data.observations) : x \notin SeqIds(f.observations)

\* C38: whatever the length of a user message, no character that lies inside
\* a <private>...</private> region of the message is in the content the
\* OpenCode plugin sends to the /prompts endpoint
C38_AsClaimed ==
    last.op = "POST /prompts" => NoSecret(last.content)

\* C39: in every state reached by CreateSession, EndSession, AddObservation,
\* AddPrompt, UpdateObservation, DeleteObservation and Import, the session_id
\* of every observation and of every prompt is the id of a session row, and
\* no step removes a session
SessionsReferenced ==
    /\ \A id \in DOMAIN observations :
          observations[id].session_id \in DOMAIN sessions
    /\ \A id \in DOMAIN user_prompts :
          user_prompts[id].session_id \in DOMAIN sessions

C39_ReferentialIntegrity ==
    /\ []SessionsReferenced
    /\ [][DOMAIN sessions \subseteq DOMAIN sessions']_vars

C39_Witness ==
    /\ last.op = "AddPrompt"
    /\ last.err
    /\ last.p.session_id \notin DOMAIN sessions
    /\ observations # <<>>
    /\ user_prompts # <<>>

\* C40: if the user keeps pressing Esc and the messages of the commands in
\* flight (an agent install among them) arrive, the TUI ends up on the
\* Dashboard screen and stays there: Esc never cycles among other screens
C40_EscReachesDashboard ==
    <>[](last.quit \/ last.m.Screen = ScreenDashboard)

C40_Witness ==
    /\ last.op = "TUI"
    /\ ~last.quit
    /\ last.m.Screen = ScreenDashboard
    /\ last.escs = MaxEscs
    /\ last.pending = <<>>

====
